---------------------------- MODULE Spec2Model ----------------------------
(***************************************************************************)
(* German Whist round engine of card-engine.                               *)
(*                                                                         *)
(* A round is a GameState (germanwhist/state.rs) and a boxed phase         *)
(* (germanwhist/phase.rs), held together as in Round (germanwhist/         *)
(* engine.rs): play_action hands the action to the phase's on_action and   *)
(* replaces the phase by its transition when on_action reports zero rounds *)
(* left.  FirstPhase / SecondPhase keep the led card, the active player,   *)
(* the rounds left and the revealed card in their own fields, and these    *)
(* are the fields on_action reads and writes; the fields of the same names *)
(* of GameState are set by GameState::new and on_action does not touch     *)
(* them.  The led card, active player, rounds left and revealed card of    *)
(* the engine are therefore the phase's.                                   *)
(*                                                                         *)
(* The deck is scaled: every suit has HandSize ranks and a hand holds      *)
(* HandSize cards (13 in the source), so that the deck of 4 * HandSize     *)
(* cards is dealt exactly as the 52 cards are: two hands, one revealed     *)
(* card, 2 * HandSize - 1 cards left in the deck.                          *)
(*                                                                         *)
(* Beside the round (Spec) the module holds a HandBelief on its own        *)
(* (SpecBelief), the round with the PlayerState of each player fed by its  *)
(* events (SpecGame, SpecPlay), a NeuralNet on its own (SpecNet), with f32 *)
(* values as exact fractions, and the SarsaLambda trainer on a round, its  *)
(* two PlayerStates and a one-layer NeuralNet (SpecTrain).                 *)
(***************************************************************************)
EXTENDS Integers, Sequences, FiniteSets, TLC

\* Number of cards of a hand, of ranks of a suit and of tricks of a phase
\* (13 in the source).
HandSize == 2

\* The shuffles considered are the decks i |-> (a * i + b) mod N with a
\* stride a <= MaxStride coprime to N and an offset b <= MaxOffset.
MaxStride == 3

MaxOffset == 1

\* Number of operations applied to a HandBelief on its own
MaxOps == 3

\* Largest magnitude of a weight of a net and of an entry of its input
MaxWeight == 1

NumSuits == 4

NumRanks == HandSize

NUM_BASIC_CARDS == NumSuits * NumRanks

\* Option::None for cards and players
None == -1

Players == {0, 1}

Suits == 0 .. (NumSuits - 1)

\* A card is its index in BasicCard::all(): ranks outermost, suits innermost.
Cards == 0 .. (NUM_BASIC_CARDS - 1)

rank(c) == c \div NumSuits

suit(c) == c % NumSuits

\* the rank is ignored
ord_ace_high_flat(r) == 0

ord_ace_high(r) == r

BasicCard_all == [i \in 1 .. NUM_BASIC_CARDS |-> i - 1]

RECURSIVE GCD(_, _)
GCD(a, b) == IF b = 0 THEN a ELSE GCD(b, a % b)

Strides == {a \in 1 .. MaxStride : GCD(a, NUM_BASIC_CARDS) = 1}

\* One outcome of BasicDeck::shuffle
shuffle(cards, a, b) ==
    [i \in 1 .. Len(cards) |-> cards[((a * (i - 1) + b) % Len(cards)) + 1]]

----------------------------------------------------------------------------
\* Vec helpers

contains(v, x) == \E i \in 1 .. Len(v) : v[i] = x

position(v, x) ==
    IF contains(v, x) THEN CHOOSE i \in 1 .. Len(v) :
                               v[i] = x /\ \A j \in 1 .. (i - 1) : v[j] # x
    ELSE 0

remove(v, i) == SubSeq(v, 1, i - 1) \o SubSeq(v, i + 1, Len(v))

Elems(v) == {v[i] : i \in 1 .. Len(v)}

Filter(v, s) == SelectSeq(v, LAMBDA x : suit(x) = s)

\* the card is returned and stays in the deck
deck_draw_kept(deck) ==
    IF Len(deck) = 0 THEN [card |-> None, deck |-> deck]
    ELSE [card |-> deck[Len(deck)], deck |-> deck]

\* BasicDeck::draw: pop the last card
deck_draw(deck) ==
    IF Len(deck) = 0 THEN [card |-> None, deck |-> deck]
    ELSE [card |-> deck[Len(deck)], deck |-> SubSeq(deck, 1, Len(deck) - 1)]

\* one card short
draw_n_short(deck, n) ==
    [cards |-> SubSeq(deck, Len(deck) - n + 2, Len(deck)),
     deck |-> SubSeq(deck, 1, Len(deck) - n + 1)]

\* BasicDeck::draw_n: split off the last n cards, in deck order
draw_n(deck, n) ==
    [cards |-> SubSeq(deck, Len(deck) - n + 1, Len(deck)),
     deck |-> SubSeq(deck, 1, Len(deck) - n)]

\* all() for any()
PlayerViewMut_has_suit_all(hand, s) == \A i \in 1 .. Len(hand) : suit(hand[i]) = s

\* PlayerViewMut
PlayerViewMut_has_suit(hand, s) == \E i \in 1 .. Len(hand) : suit(hand[i]) = s

\* the hand is never searched
PlayerView_has_suit_never(hand, s) == FALSE

\* PlayerView
PlayerView_has_suit(hand, s) == \E i \in 1 .. Len(hand) : suit(hand[i]) = s

\* the card is dropped
add_card_dropped(hand, c) == hand

add_card(hand, c) == Append(hand, c)

remove_card(hand, c) ==
    LET p == position(hand, c)
    IN  IF p # 0 THEN [ok |-> TRUE, hand |-> remove(hand, p)]
        ELSE [ok |-> FALSE, hand |-> hand]

----------------------------------------------------------------------------
\* GameState

\* a card of another suit never wins, the trump suit included
wins_against_no_trump(trump, leading, follow) ==
    IF suit(follow) = suit(leading)
    THEN ord_ace_high(rank(follow)) > ord_ace_high(rank(leading))
    ELSE FALSE

\* PlayerView::wins_against: the following card beats the leading card
wins_against(trump, leading, follow) ==
    IF suit(follow) = suit(leading)
    THEN ord_ace_high(rank(follow)) > ord_ace_high(rank(leading))
    ELSE suit(follow) = trump

\* a trump following a plain lead is taken for a discard
score_hand_no_ruff(trump, leading, following) ==
    IF leading = following THEN [is_some |-> FALSE, value |-> FALSE]
    ELSE [is_some |-> TRUE,
          value |-> (suit(following) # suit(leading)
                     \/ ord_ace_high(rank(leading)) > ord_ace_high(rank(following)))]

\* Some(true): the leading player wins the trick
score_hand(trump, leading, following) ==
    IF leading = following THEN [is_some |-> FALSE, value |-> FALSE]
    ELSE IF suit(leading) = trump
    THEN [is_some |-> TRUE,
          value |-> (suit(following) # trump
                     \/ ord_ace_high(rank(leading)) > ord_ace_high(rank(following)))]
    ELSE [is_some |-> TRUE,
          value |-> IF suit(following) = trump THEN FALSE
                    ELSE IF suit(following) # suit(leading) THEN TRUE
                    ELSE ord_ace_high(rank(leading)) > ord_ace_high(rank(following))]

\* the other player is credited
increment_score_other(score, player, points) ==
    [score EXCEPT ![1 - player] = @ + points]

increment_score(score, player, points) ==
    [score EXCEPT ![player] = @ + points]

unwrap_or(player, d) == IF player = None THEN d ELSE player

GameState_new(deck0, player) ==
    LET d0 == draw_n(deck0, HandSize)
        d1 == draw_n(d0.deck, HandSize)
        c  == deck_draw(d1.deck)
    IN  [deck |-> c.deck,
         hands |-> [p \in Players |-> IF p = 0 THEN d0.cards ELSE d1.cards],
         score |-> [p \in Players |-> 0],
         trump |-> suit(c.card),
         active |-> unwrap_or(player, 0),
         played |-> None,
         rounds_left |-> 2 * HandSize,
         revealed |-> c.card]

----------------------------------------------------------------------------
\* Phases

FirstPhase_new(first_card, player) ==
    [kind |-> "FirstPhase", played |-> None, active |-> player,
     rounds_left |-> HandSize, revealed |-> first_card]

\* player 0 opens the phase, as in Round::new
SecondPhase_new_zero(player) ==
    [kind |-> "SecondPhase", played |-> None, active |-> 0,
     rounds_left |-> HandSize]

SecondPhase_new(player) ==
    [kind |-> "SecondPhase", played |-> None, active |-> player,
     rounds_left |-> HandSize]

GameOverPhase == [kind |-> "GameOverPhase"]

Ok == [kind |-> "Ok", player |-> None]

Err(kind, player) == [kind |-> kind, player |-> player]

Panic == [kind |-> "Panic", player |-> None]

Action == [player : Players, card : Cards]

\* FirstPhase::possible_actions and SecondPhase::possible_actions
Phase_possible_actions(ph, gs) ==
    LET hand == gs.hands[ph.active]
        cs == IF ph.played # None /\ PlayerView_has_suit(hand, suit(ph.played))
              THEN Filter(hand, suit(ph.played))
              ELSE hand
    IN  [i \in 1 .. Len(cs) |-> [player |-> ph.active, card |-> cs[i]]]

possible_actions(ph, gs) ==
    IF ph.kind = "GameOverPhase" THEN << >> ELSE Phase_possible_actions(ph, gs)

\* The trick winner: the leader when score_hand says so, else the follower
trick_winner(sh, lead, follow) == IF sh.value THEN lead ELSE follow

\* FirstPhase::on_action.  The result holds the returned value (res, rl)
\* and the state and phase as the call leaves them, also on early returns.
FirstPhase_on_action(ph, gs, action) ==
    IF action.player # ph.active
    THEN [res |-> Err("WrongPlayer", ph.active), rl |-> 0, ph |-> ph, gs |-> gs]
    ELSE IF ~contains(gs.hands[action.player], action.card)
    THEN [res |-> Err("MissingCard", None), rl |-> 0, ph |-> ph, gs |-> gs]
    ELSE IF ph.played = None
    THEN \* the first card of the trick
         LET rm == remove_card(gs.hands[action.player], action.card)
             ph1 == [ph EXCEPT !.played = action.card, !.active = 1 - ph.active]
         IN  IF ~rm.ok
             THEN [res |-> Err("MissingCard", None), rl |-> 0, ph |-> ph, gs |-> gs]
             ELSE [res |-> Ok, rl |-> ph1.rounds_left, ph |-> ph1,
                   gs |-> [gs EXCEPT !.hands[action.player] = rm.hand]]
    ELSE \* self.played.take()
         LET leading_card == ph.played
             ph1 == [ph EXCEPT !.played = None]
         IN  IF PlayerViewMut_has_suit(gs.hands[action.player], suit(leading_card))
                /\ suit(action.card) # suit(leading_card)
             THEN [res |-> Err("NotFollowingSuit", None), rl |-> 0,
                   ph |-> ph1, gs |-> gs]
             ELSE
             LET rm == remove_card(gs.hands[action.player], action.card)
                 gs1 == [gs EXCEPT !.hands[action.player] = rm.hand]
                 follow == ph1.active
                 lead == 1 - ph1.active
                 sh == score_hand(gs1.trump, leading_card, action.card)
             IN  IF ~rm.ok
                 THEN [res |-> Err("MissingCard", None), rl |-> 0,
                       ph |-> ph1, gs |-> gs]
                 ELSE IF ~sh.is_some \/ ph1.revealed = None \/ Len(gs1.deck) = 0
                 THEN \* unwrap / expect on None
                      [res |-> Panic, rl |-> 0, ph |-> ph1, gs |-> gs1]
                 ELSE
                 LET winner == trick_winner(sh, lead, follow)
                     loser == 1 - winner
                     r == ph1.revealed
                     gs2 == [gs1 EXCEPT !.hands[winner] = add_card(@, r)]
                     dr == deck_draw(gs2.deck)
                     gs3 == [gs2 EXCEPT !.deck = dr.deck,
                                        !.hands[loser] = add_card(@, dr.card)]
                     nr == deck_draw(gs3.deck)
                     gs4 == IF Len(gs3.deck) > 0
                            THEN [gs3 EXCEPT !.deck = nr.deck] ELSE gs3
                     ph2 == [ph1 EXCEPT
                               !.revealed = IF Len(gs3.deck) > 0 THEN nr.card ELSE None,
                               !.active = winner,
                               !.rounds_left = @ - 1]
                 IN  [res |-> Ok, rl |-> ph2.rounds_left, ph |-> ph2, gs |-> gs4]

\* SecondPhase::on_action
SecondPhase_on_action(ph, gs, action) ==
    IF action.player # ph.active
    THEN [res |-> Err("WrongPlayer", ph.active), rl |-> 0, ph |-> ph, gs |-> gs]
    ELSE IF ~contains(gs.hands[action.player], action.card)
    THEN [res |-> Err("MissingCard", None), rl |-> 0, ph |-> ph, gs |-> gs]
    ELSE IF ph.played = None
    THEN LET rm == remove_card(gs.hands[action.player], action.card)
             ph1 == [ph EXCEPT !.played = action.card, !.active = 1 - ph.active]
         IN  IF ~rm.ok
             THEN [res |-> Err("MissingCard", None), rl |-> 0, ph |-> ph, gs |-> gs]
             ELSE [res |-> Ok, rl |-> ph1.rounds_left, ph |-> ph1,
                   gs |-> [gs EXCEPT !.hands[action.player] = rm.hand]]
    ELSE LET leading_card == ph.played
             ph1 == [ph EXCEPT !.played = None]
         IN  IF PlayerViewMut_has_suit(gs.hands[action.player], suit(leading_card))
                /\ suit(action.card) # suit(leading_card)
             THEN [res |-> Err("NotFollowingSuit", None), rl |-> 0,
                   ph |-> ph1, gs |-> gs]
             ELSE
             LET rm == remove_card(gs.hands[action.player], action.card)
                 gs1 == [gs EXCEPT !.hands[action.player] = rm.hand]
                 follow == ph1.active
                 lead == 1 - ph1.active
                 sh == score_hand(gs1.trump, leading_card, action.card)
             IN  IF ~rm.ok
                 THEN [res |-> Err("MissingCard", None), rl |-> 0,
                       ph |-> ph1, gs |-> gs]
                 ELSE IF ~sh.is_some
                 THEN \* unwrap on None
                      [res |-> Panic, rl |-> 0, ph |-> ph1, gs |-> gs1]
                 ELSE
                 LET winner == trick_winner(sh, lead, follow)
                     gs2 == [gs1 EXCEPT !.score = increment_score(@, winner, 1)]
                     ph2 == [ph1 EXCEPT !.active = winner, !.rounds_left = @ - 1]
                 IN  [res |-> Ok, rl |-> ph2.rounds_left, ph |-> ph2, gs |-> gs2]

\* GameOverPhase::on_action
GameOverPhase_on_action(ph, gs, action) ==
    [res |-> Err("GameOver", None), rl |-> 0, ph |-> ph, gs |-> gs]

\* Dynamic dispatch on the boxed phase
on_action(ph, gs, action) ==
    CASE ph.kind = "FirstPhase" -> FirstPhase_on_action(ph, gs, action)
      [] ph.kind = "SecondPhase" -> SecondPhase_on_action(ph, gs, action)
      [] OTHER -> GameOverPhase_on_action(ph, gs, action)

\* engine.rs keeps a copy of the phases.  Its FirstPhase::on_action matches on
\* self.played by reference: the led card is not taken out of the phase, and
\* the follower is held to the trump suit.
engine_FirstPhase_on_action(ph, gs, action) ==
    IF action.player # ph.active
    THEN [res |-> Err("WrongPlayer", ph.active), rl |-> 0, ph |-> ph, gs |-> gs]
    ELSE IF ~contains(gs.hands[action.player], action.card)
    THEN [res |-> Err("MissingCard", None), rl |-> 0, ph |-> ph, gs |-> gs]
    ELSE IF ph.played = None
    THEN \* the first card of the trick
         LET rm == remove_card(gs.hands[action.player], action.card)
             ph1 == [ph EXCEPT !.played = action.card, !.active = 1 - ph.active]
         IN  IF ~rm.ok
             THEN [res |-> Err("MissingCard", None), rl |-> 0, ph |-> ph, gs |-> gs]
             ELSE [res |-> Ok, rl |-> ph1.rounds_left, ph |-> ph1,
                   gs |-> [gs EXCEPT !.hands[action.player] = rm.hand]]
    ELSE \* Some(ref card)
         LET card == ph.played
             trump == gs.trump
         IN  IF PlayerViewMut_has_suit(gs.hands[action.player], trump)
                /\ suit(action.card) # trump
             THEN [res |-> Err("NotFollowingSuit", None), rl |-> 0,
                   ph |-> ph, gs |-> gs]
             ELSE
             LET rm == remove_card(gs.hands[action.player], action.card)
                 gs1 == [gs EXCEPT !.hands[action.player] = rm.hand]
                 follow == ph.active
                 lead == 1 - ph.active
                 sh == score_hand(gs1.trump, card, action.card)
             IN  IF ~rm.ok
                 THEN [res |-> Err("MissingCard", None), rl |-> 0,
                       ph |-> ph, gs |-> gs]
                 ELSE IF ~sh.is_some \/ ph.revealed = None \/ Len(gs1.deck) = 0
                 THEN \* unwrap / expect on None
                      [res |-> Panic, rl |-> 0, ph |-> ph, gs |-> gs1]
                 ELSE
                 LET winner == trick_winner(sh, lead, follow)
                     loser == 1 - winner
                     r == ph.revealed
                     gs2 == [gs1 EXCEPT !.hands[winner] = add_card(@, r)]
                     dr == deck_draw(gs2.deck)
                     gs3 == [gs2 EXCEPT !.deck = dr.deck,
                                        !.hands[loser] = add_card(@, dr.card)]
                     nr == deck_draw(gs3.deck)
                     gs4 == IF Len(gs3.deck) > 0
                            THEN [gs3 EXCEPT !.deck = nr.deck] ELSE gs3
                     ph2 == [ph EXCEPT
                               !.revealed = IF Len(gs3.deck) > 0 THEN nr.card ELSE None,
                               !.active = winner,
                               !.rounds_left = @ - 1]
                 IN  [res |-> Ok, rl |-> ph2.rounds_left, ph |-> ph2, gs |-> gs4]

\* SecondPhase::on_action of engine.rs
engine_SecondPhase_on_action(ph, gs, action) ==
    IF action.player # ph.active
    THEN [res |-> Err("WrongPlayer", ph.active), rl |-> 0, ph |-> ph, gs |-> gs]
    ELSE IF ~contains(gs.hands[action.player], action.card)
    THEN [res |-> Err("MissingCard", None), rl |-> 0, ph |-> ph, gs |-> gs]
    ELSE IF ph.played = None
    THEN LET rm == remove_card(gs.hands[action.player], action.card)
             ph1 == [ph EXCEPT !.played = action.card, !.active = 1 - ph.active]
         IN  IF ~rm.ok
             THEN [res |-> Err("MissingCard", None), rl |-> 0, ph |-> ph, gs |-> gs]
             ELSE [res |-> Ok, rl |-> ph1.rounds_left, ph |-> ph1,
                   gs |-> [gs EXCEPT !.hands[action.player] = rm.hand]]
    ELSE LET card == ph.played
             trump == gs.trump
         IN  IF PlayerViewMut_has_suit(gs.hands[action.player], trump)
                /\ suit(action.card) # trump
             THEN [res |-> Err("NotFollowingSuit", None), rl |-> 0,
                   ph |-> ph, gs |-> gs]
             ELSE
             LET rm == remove_card(gs.hands[action.player], action.card)
                 gs1 == [gs EXCEPT !.hands[action.player] = rm.hand]
                 follow == ph.active
                 lead == 1 - ph.active
                 sh == score_hand(gs1.trump, card, action.card)
             IN  IF ~rm.ok
                 THEN [res |-> Err("MissingCard", None), rl |-> 0,
                       ph |-> ph, gs |-> gs]
                 ELSE IF ~sh.is_some
                 THEN \* unwrap on None
                      [res |-> Panic, rl |-> 0, ph |-> ph, gs |-> gs1]
                 ELSE
                 LET winner == trick_winner(sh, lead, follow)
                     gs2 == [gs1 EXCEPT !.score = increment_score(@, winner, 1)]
                     ph2 == [ph EXCEPT !.active = winner, !.rounds_left = @ - 1]
                 IN  [res |-> Ok, rl |-> ph2.rounds_left, ph |-> ph2, gs |-> gs2]

\* Dynamic dispatch on the boxed PhaseState of engine.rs
engine_on_action(ph, gs, action) ==
    CASE ph.kind = "FirstPhase" -> engine_FirstPhase_on_action(ph, gs, action)
      [] ph.kind = "SecondPhase" -> engine_SecondPhase_on_action(ph, gs, action)
      [] OTHER -> GameOverPhase_on_action(ph, gs, action)

\* The process after a failed unwrap or expect
Aborted == [kind |-> "Aborted"]

transition(ph) ==
    CASE ph.kind = "FirstPhase" -> SecondPhase_new(ph.active)
      [] OTHER -> GameOverPhase

----------------------------------------------------------------------------
\* HandBelief (hand_belief.rs).  An f32 is modelled by the exact fraction
\* <<numerator, denominator>> in lowest terms; rounding is not modelled.

Abs(n) == IF n < 0 THEN -n ELSE n

Norm(n, d) ==
    LET g == GCD(Abs(n), d)
    IN  <<n \div g, d \div g>>

Zero == <<0, 1>>

One == <<1, 1>>

F32(n) == <<n, 1>>

RAdd(x, y) == Norm(x[1] * y[2] + y[1] * x[2], x[2] * y[2])

\* x / k for a count k.  A division by zero count yields a value (inf or
\* NaN) that the callers add to no card; Zero stands for it.
RDiv(x, k) == IF k = 0 THEN Zero ELSE Norm(x[1], x[2] * k)

RLeq(x, y) == x[1] * y[2] <= y[1] * x[2]

\* CardState
Played == [tag |-> "Played", p |-> Zero]

Void == [tag |-> "Void", p |-> Zero]

Owns == [tag |-> "Owns", p |-> Zero]

Prob(x) == [tag |-> "Prob", p |-> x]

\* CardState::p
CardState_p(v) ==
    CASE v.tag = "Played" -> Zero
      [] v.tag = "Void" -> Zero
      [] v.tag = "Owns" -> One
      [] OTHER -> v.p

void_to_zero(v) == IF v.tag = "Void" THEN Prob(Zero) ELSE v

is_prob(v) == v.tag = "Prob"

HandBelief_new == [c \in Cards |-> Void]

clear(probs) == [c \in Cards |-> Void]

has_card(probs, c) == CardState_p(probs[c])

RECURSIVE SumP(_, _)
SumP(probs, S) ==
    IF S = {} THEN Zero
    ELSE LET c == CHOOSE x \in S : TRUE
         IN  RAdd(CardState_p(probs[c]), SumP(probs, S \ {c}))

num_cards(probs) == SumP(probs, Cards)

num_candidates(probs) == Cardinality({c \in Cards : is_prob(probs[c])})

distribute_uniformly(probs, ec) ==
    LET nc == num_candidates(probs)
    IN  [c \in Cards |->
            IF is_prob(probs[c]) THEN Prob(RAdd(probs[c].p, RDiv(ec, nc)))
            ELSE probs[c]]

\* pred is the set of the cards that satisfy the predicate
transfer_probability_to(probs, pred) ==
    LET from == {c \in Cards : c \notin pred /\ is_prob(probs[c])}
        p_dist == SumP(probs, from)
        count == Cardinality(from)
        nc == num_candidates(probs)
        p_inc == RDiv(p_dist, nc - count)
    IN  [c \in Cards |->
            IF is_prob(probs[c])
            THEN IF c \in pred THEN Prob(RAdd(probs[c].p, p_inc)) ELSE Prob(Zero)
            ELSE probs[c]]

remove_voids(probs) == [c \in Cards |-> void_to_zero(probs[c])]

random_cards_drawn(probs, n) == distribute_uniformly(remove_voids(probs), F32(n))

\* the voids are cleared first
empty_suit_reset(probs, s) ==
    LET t == transfer_probability_to(remove_voids(probs),
                                     {c \in Cards : suit(c) # s})
    IN  [c \in Cards |-> IF suit(c) = s /\ is_prob(t[c]) THEN Void ELSE t[c]]

empty_suit(probs, s) ==
    LET t == transfer_probability_to(probs, {c \in Cards : suit(c) # s})
    IN  [c \in Cards |-> IF suit(c) = s /\ is_prob(t[c]) THEN Void ELSE t[c]]

\* the card is marked as played
card_drawn_played(probs, card) ==
    [transfer_probability_to(probs, Cards \ {card}) EXCEPT ![card] = Played]

card_drawn(probs, card) ==
    [transfer_probability_to(probs, Cards \ {card}) EXCEPT ![card] = Owns]

card_played(probs, card) ==
    distribute_uniformly(
        [transfer_probability_to(probs, Cards \ {card}) EXCEPT ![card] = Played],
        F32(-1))

card_seen(probs, card) ==
    [transfer_probability_to(probs, Cards \ {card}) EXCEPT ![card] = Played]

----------------------------------------------------------------------------
\* GameEvent, as PlayerState::on_event reads it (germanwhist/player.rs)

StartEvent(hand, trump, starting_player, revealed) ==
    [type |-> "Start", hand |-> hand, trump |-> trump,
     starting_player |-> starting_player, revealed |-> revealed]

ActionEvent(action) ==
    [type |-> "Action", player |-> action.player, card |-> action.card]

CardEvent(player, card) == [type |-> "Card", player |-> player, card |-> card]

TrickEvent(leading_player, active_player, cards_played, revealed, score) ==
    [type |-> "Trick", leading_player |-> leading_player,
     active_player |-> active_player, cards_played |-> cards_played,
     revealed |-> revealed, score |-> score]

----------------------------------------------------------------------------
\* PlayerState (germanwhist/player.rs)

Clubs == 0

Diamonds == 1

Hearts == 2

Spades == 3

PlayerState_new(id) ==
    [player_id |-> id,
     hand |-> {},
     oppo |-> HandBelief_new,
     active |-> 0,
     trump |-> Hearts,
     revealed |-> None,
     leading_card |-> None,
     played_cards |-> {},
     score |-> [q \in Players |-> 0],
     suit_order |-> <<Clubs, Diamonds, Hearts, Spades>>]

\* for card in &self.hand { self.oppo.card_seen(card) }
RECURSIVE card_seen_all(_, _)
card_seen_all(probs, hand) ==
    IF hand = {} THEN probs
    ELSE LET c == CHOOSE x \in hand : TRUE
         IN  card_seen_all(card_seen(probs, c), hand \ {c})

\* the sort key of update_suit_order: (trump first, count in hand, ordinal)
suit_key(ps, s) ==
    <<IF s = ps.trump THEN 0 ELSE 1,
      Cardinality({c \in ps.hand : suit(c) = s}),
      s>>

key_less(a, b) ==
    \/ a[1] < b[1]
    \/ a[1] = b[1] /\ a[2] < b[2]
    \/ a[1] = b[1] /\ a[2] = b[2] /\ a[3] < b[3]

update_suit_order(ps) ==
    [ps EXCEPT !.suit_order =
        SortSeq(ps.suit_order,
                LAMBDA a, b : key_less(suit_key(ps, a), suit_key(ps, b)))]

\* the played cards of the earlier rounds are kept
on_start_keep_played(ps, start) ==
    [ps EXCEPT
        !.hand = Elems(start.hand),
        !.trump = start.trump,
        !.active = start.starting_player,
        !.revealed = start.revealed,
        !.leading_card = None,
        !.score = [q \in Players |-> 0],
        !.oppo = card_seen_all(
                     card_seen(random_cards_drawn(clear(ps.oppo), HandSize),
                               start.revealed),
                     Elems(start.hand))]

on_start(ps, start) ==
    [ps EXCEPT
        !.hand = Elems(start.hand),
        !.trump = start.trump,
        !.active = start.starting_player,
        !.revealed = start.revealed,
        !.played_cards = {},
        !.leading_card = None,
        !.score = [q \in Players |-> 0],
        !.oppo = card_seen_all(
                     card_seen(random_cards_drawn(clear(ps.oppo), HandSize),
                               start.revealed),
                     Elems(start.hand))]

on_action_event(ps, action) ==
    LET ps1 == IF action.player = ps.player_id
               THEN [ps EXCEPT !.hand = @ \ {action.card}]
               ELSE LET o1 == card_played(ps.oppo, action.card)
                    IN  [ps EXCEPT !.oppo =
                            IF ps.leading_card # None
                               /\ suit(ps.leading_card) # suit(action.card)
                            THEN empty_suit(o1, suit(ps.leading_card))
                            ELSE o1]
    IN  [ps1 EXCEPT
            !.leading_card = IF @ = None THEN action.card ELSE @,
            !.active = 1 - action.player]

\* the card the opponent is seen to take is left as the belief holds it
on_card_not_drawn(ps, card) ==
    IF card.player = ps.player_id
    THEN IF card.card = None
         THEN Aborted
         ELSE [ps EXCEPT !.hand = @ \cup {card.card},
                         !.oppo = card_seen(@, card.card)]
    ELSE IF card.card # None
         THEN ps
         ELSE [ps EXCEPT !.oppo = random_cards_drawn(@, 1)]

on_card(ps, card) ==
    IF card.player = ps.player_id
    THEN IF card.card = None
         THEN Aborted   \* expect on None
         ELSE [ps EXCEPT !.hand = @ \cup {card.card},
                         !.oppo = card_seen(@, card.card)]
    ELSE IF card.card # None
         THEN [ps EXCEPT !.oppo = card_drawn(@, card.card)]
         ELSE [ps EXCEPT !.oppo = random_cards_drawn(@, 1)]

on_trick(ps, trick) ==
    [ps EXCEPT
        !.leading_card = None,
        !.revealed = trick.revealed,
        !.active = trick.active_player,
        !.score = trick.score,
        !.oppo = IF trick.revealed # None THEN card_seen(@, trick.revealed) ELSE @,
        !.played_cards = @ \cup Elems(trick.cards_played)]

\* PlayerState::on_event
on_event(ps, ev) ==
    IF ps = Aborted THEN Aborted
    ELSE LET ps1 == CASE ev.type = "Start" -> on_start(ps, ev)
                      [] ev.type = "Action" -> on_action_event(ps, ev)
                      [] ev.type = "Card" -> on_card(ps, ev)
                      [] OTHER -> on_trick(ps, ev)
         IN  IF ps1 = Aborted THEN Aborted ELSE update_suit_order(ps1)

\* for ev in evs { state.on_event(ev) }
RECURSIVE on_events(_, _)
on_events(ps, evs) ==
    IF evs = << >> THEN ps
    ELSE on_events(on_event(ps, Head(evs)), Tail(evs))

card_index(card, suit_order) ==
    rank(card) + NumRanks * (position(suit_order, suit(card)) - 1)

score_to_state(x) == RAdd(Norm(x * 2, HandSize), F32(-1))

\* PlayerState::state_vector: the value at every index 0 .. 5 * N + 2
state_vector(ps) ==
    LET N == NUM_BASIC_CARDS
        \* the card c with card_index(c, ps.suit_order) = i
        at(i) == (i % NumRanks) * NumSuits + ps.suit_order[(i \div NumRanks) + 1]
        twice(x) == RAdd(x, x)
        pm(b) == IF b THEN F32(1) ELSE F32(-1)
    IN  [i \in 0 .. (5 * N + 2) |->
            IF i < N THEN pm(at(i) \in ps.hand)
            ELSE IF i < 2 * N
            THEN RAdd(twice(has_card(ps.oppo, at(i - N))), F32(-1))
            ELSE IF i < 3 * N THEN pm(at(i - 2 * N) \in ps.played_cards)
            ELSE IF i < 4 * N THEN pm(ps.revealed = at(i - 3 * N))
            ELSE IF i < 5 * N THEN pm(ps.leading_card = at(i - 4 * N))
            ELSE IF i = 5 * N THEN pm(ps.active = ps.player_id)
            ELSE IF i = 5 * N + 1 THEN score_to_state(ps.score[0])
            ELSE score_to_state(ps.score[1])]

----------------------------------------------------------------------------
\* NeuralNet (learning/neural_net.rs).  Arrays are sequences of fractions.

RMul(x, y) == Norm(x[1] * y[1], x[2] * y[2])

RNeg(x) == <<-x[1], x[2]>>

RSub(x, y) == RAdd(x, RNeg(y))

RLess(x, y) == x[1] * y[2] < y[1] * x[2]

\* Array::zeros(n), Array::from_elem(n, v)
from_elem(n, v) == [i \in 1 .. n |-> v]

zeros(n) == from_elem(n, Zero)

\* v *= c and u += v on arrays
VScale(c, v) == [i \in 1 .. Len(v) |-> RMul(c, v[i])]

VAdd(u, v) ==
    CHOOSE r \in {[i \in 1 .. Len(a) |-> RAdd(a[i], b[i])] :
                  a \in {u}, b \in {v}} : TRUE

\* a.dot(b)
RECURSIVE dot_range(_, _, _, _)
dot_range(a, b, lo, hi) ==
    IF lo > hi THEN Zero
    ELSE IF lo = hi THEN RMul(a[lo], b[lo])
    ELSE RAdd(dot_range(a, b, lo, (lo + hi) \div 2),
              dot_range(a, b, ((lo + hi) \div 2) + 1, hi))

dot(a, b) == dot_range(a, b, 1, Len(a))

SS_FSCALE == <<17159, 10000>>

SS_XSCALE == <<2, 3>>

\* The activation functions.  exp and tanh are taken at 0, where their value
\* is a fraction; a net is evaluated on the inputs that bring them there.
activate_exponential(x) == CASE x = Zero -> One

activate_linear(x) == x

activate_logistic(x) == CASE x = Zero -> <<1, 2>>

activate_ss(x) == CASE x = Zero -> Zero

activate_relu(x) == IF RLess(Zero, x) THEN x ELSE Zero

grad_linear(x, f) == One

grad_exponential(x, f) == f

grad_logistic(x, f) == RMul(f, RSub(One, f))

grad_ss(x, f) == RMul(SS_XSCALE, RSub(SS_FSCALE, RMul(RMul(f, f), <<10000, 17159>>)))

grad_relu(x, f) == IF RLeq(Zero, x) THEN One ELSE Zero

ActivationFunction == {"Linear", "Sigmoid", "SymmetricSigmoid", "ReLU", "Exp"}

af(act, x) ==
    CASE act = "Linear" -> activate_linear(x)
      [] act = "Sigmoid" -> activate_logistic(x)
      [] act = "SymmetricSigmoid" -> activate_ss(x)
      [] act = "ReLU" -> activate_relu(x)
      [] act = "Exp" -> activate_exponential(x)

agf(act, x, f) ==
    CASE act = "Linear" -> grad_linear(x, f)
      [] act = "Sigmoid" -> grad_logistic(x, f)
      [] act = "SymmetricSigmoid" -> grad_ss(x, f)
      [] act = "ReLU" -> grad_relu(x, f)
      [] act = "Exp" -> grad_exponential(x, f)

\* Layer: m is the list of the rows of the matrix
Layer_num_inputs(layer) == Len(layer.m[1])

Layer_num_outputs(layer) == Len(layer.m)

Layer_num_parameters(layer) ==
    Layer_num_outputs(layer) * (Layer_num_inputs(layer) + 1)

\* m.len()
m_len(layer) == Layer_num_outputs(layer) * Layer_num_inputs(layer)

\* the pre-activations r.dot(input) + b of a layer
pre_activation(layer, input) ==
    [j \in 1 .. Layer_num_outputs(layer) |->
        RAdd(dot(layer.m[j], input), layer.bias[j])]

\* Layer::evaluate
Layer_evaluate(layer, input) ==
    LET pa == pre_activation(layer, input)
    IN  [j \in 1 .. Layer_num_outputs(layer) |-> af(layer.act, pa[j])]

\* outer_product: *r = *ai * *bi for every entry of c, row-major
outer_product(c, a, b) ==
    [k \in 1 .. Len(c) |->
        RMul(a[((k - 1) \div Len(b)) + 1], b[((k - 1) % Len(b)) + 1])]

\* Layer::evaluate_partial_g: the output and the block partial_g of the layer
evaluate_partial_g(layer, input, partial_g) ==
    CHOOSE r \in
        {LET out == [j \in 1 .. Layer_num_outputs(layer) |-> af(layer.act, pa[j])]
             dml == SubSeq(partial_g, 1, m_len(layer))
             dbias == [j \in 1 .. Layer_num_outputs(layer) |->
                          agf(layer.act, pa[j], out[j])]
         IN  [out |-> out, g |-> outer_product(dml, dbias, input) \o dbias] :
         pa \in {pre_activation(layer, input)}} : TRUE

\* mat_t_vec_mul: c = A^t * b
mat_t_vec_mul(layer, b) ==
    [i \in 1 .. Layer_num_inputs(layer) |->
        dot([j \in 1 .. Layer_num_outputs(layer) |-> layer.m[j][i]], b)]

\* Layer::complete_g: the block g times de_dout, and de_din
complete_g(layer, de_dout, g) ==
    LET ni == Layer_num_inputs(layer)
        dm == [k \in 1 .. m_len(layer) |->
                  RMul(g[k], de_dout[((k - 1) \div ni) + 1])]
        dbias == [j \in 1 .. Layer_num_outputs(layer) |->
                     RMul(g[m_len(layer) + j], de_dout[j])]
    IN  [g |-> dm \o dbias, de_din |-> mat_t_vec_mul(layer, de_dout)]

\* NeuralNet
NeuralNet_num_inputs(net) == Layer_num_inputs(net.layers[1])

NeuralNet_num_outputs(net) == Layer_num_outputs(net.layers[Len(net.layers)])

RECURSIVE sum_parameters(_)
sum_parameters(layers) ==
    IF layers = << >> THEN 0
    ELSE Layer_num_parameters(Head(layers)) + sum_parameters(Tail(layers))

NeuralNet_num_parameters(net) == sum_parameters(net.layers)

\* NeuralNet::evaluate
RECURSIVE evaluate_layers(_, _)
evaluate_layers(layers, x) ==
    IF layers = << >> THEN x
    ELSE evaluate_layers(Tail(layers), Layer_evaluate(Head(layers), x))

evaluate(net, input) == evaluate_layers(net.layers, input)

\* the first fold of evaluate_with_gradient, over the layers in order
RECURSIVE forward_fold(_, _, _)
forward_fold(layers, x, gv) ==
    IF layers = << >> THEN [x |-> x, g |-> gv]
    ELSE LET layer == Head(layers)
             np == Layer_num_parameters(layer)
             r == evaluate_partial_g(layer, x, SubSeq(gv, 1, np))
             rest == forward_fold(Tail(layers), r.out, SubSeq(gv, np + 1, Len(gv)))
         IN  [x |-> rest.x, g |-> r.g \o rest.g]

\* the second fold, over the layers in reverse
RECURSIVE backward_fold(_, _, _)
backward_fold(layers, x, gv) ==
    IF layers = << >> THEN gv
    ELSE LET layer == layers[Len(layers)]
             split_loc == Len(gv) - Layer_num_parameters(layer)
             r == complete_g(layer, x, SubSeq(gv, split_loc + 1, Len(gv)))
         IN  backward_fold(SubSeq(layers, 1, Len(layers) - 1), r.de_din,
                           SubSeq(gv, 1, split_loc)) \o r.g

\* the gradient is added to what the buffer holds
evaluate_with_gradient_added(net, input, gradient) ==
    CHOOSE r \in
        {[output |-> f.x,
          gradient |-> VAdd(gradient,
                            backward_fold(net.layers,
                                          from_elem(NeuralNet_num_outputs(net), One),
                                          f.g))] :
         f \in {forward_fold(net.layers, input, zeros(Len(gradient)))}} : TRUE

\* NeuralNet::evaluate_with_gradient: the output and the buffer after the call
evaluate_with_gradient(net, input, gradient) ==
    CHOOSE r \in
        {[output |-> f.x,
          gradient |-> backward_fold(net.layers,
                                     from_elem(NeuralNet_num_outputs(net), One),
                                     f.g)] :
         f \in {forward_fold(net.layers, input, zeros(Len(gradient)))}} : TRUE

\* Layer::weight_step
weight_step(layer, rate, weights) ==
    LET ni == Layer_num_inputs(layer)
    IN  [layer EXCEPT
            !.m = [j \in 1 .. Layer_num_outputs(layer) |->
                      [i \in 1 .. ni |->
                          RAdd(layer.m[j][i], RMul(weights[(j - 1) * ni + i], rate))]],
            !.bias = [j \in 1 .. Layer_num_outputs(layer) |->
                         RAdd(layer.bias[j], RMul(weights[m_len(layer) + j], rate))]]

RECURSIVE step_layers(_, _, _)
step_layers(layers, rate, w) ==
    IF layers = << >> THEN << >>
    ELSE LET np == Layer_num_parameters(Head(layers))
         IN  <<weight_step(Head(layers), rate, SubSeq(w, 1, np))>>
             \o step_layers(Tail(layers), rate, SubSeq(w, np + 1, Len(w)))

\* NeuralNet::update_weights
update_weights(net, err, w) ==
    LET ni == net.ni + 1
        lre == RMul(RMul(net.learning_rate, err), <<1000, 1000 + ni>>)
    IN  [net EXCEPT !.ni = ni, !.layers = step_layers(net.layers, lre, w)]

----------------------------------------------------------------------------
\* Round

VARIABLES
    state,        \* Round.state: the GameState
    phase,        \* Round.phase
    result,       \* what the last play_action returned
    last_trick,   \* history: the last resolved trick
    pile,         \* history: the cards of the resolved tricks
    accepted,     \* history: number of accepted actions
    tricks,       \* history: resolved tricks of the build and the score sub-phase
    belief,       \* a HandBelief on its own: its probs map
    before,       \* history: belief before its last operation
    op,           \* history: the last operation on belief
    nops,         \* history: number of operations on belief
    players,      \* the PlayerState of each player
    replay,       \* a PlayerState::new of each player that is given the same events
    events,       \* the events the last operation of the round returned, per player
    believed,     \* history: hand size by the operations on each players[p].oppo
    started,      \* history: number of start_round calls
    used,         \* history: the players went through an earlier round
    nn,           \* a NeuralNet on its own, its input and the gradient buffer
    trainer       \* the SarsaLambda trainer: its players' traces, its model

round_vars == <<state, phase, result, last_trick, pile, accepted, tricks>>

belief_vars == <<belief, before, op, nops>>

game_vars == <<players, replay, events, believed, started, used>>

learn_vars == <<nn, trainer>>

vars == <<round_vars, belief_vars, game_vars, learn_vars>>

NoEvents == [q \in Players |-> << >>]

\* The observers before any event
NoGame ==
    /\ players = [q \in Players |-> PlayerState_new(q)]
    /\ replay = [q \in Players |-> PlayerState_new(q)]
    /\ events = NoEvents
    /\ believed = [q \in Players |-> 0]
    /\ started = 0
    /\ used = FALSE

NoOp == [name |-> "new", card |-> None, suit |-> None, n |-> 0]

NoNet == [net |-> None, input |-> << >>, gradient |-> << >>, output |-> << >>,
          called |-> FALSE, dirty |-> FALSE]

\* no SarsaLambda is constructed
NoTrainer == [pc |-> "none"]

\* No net and no trainer
NoLearning ==
    /\ nn = NoNet
    /\ trainer = NoTrainer

NoTrick ==
    [lead |-> None, follow |-> None, leader |-> None, winner |-> None,
     kind |-> "None"]

Init ==
    \E a \in Strides, b \in 0 .. MaxOffset, player \in {None, 0, 1} :
        LET gs == GameState_new(shuffle(BasicCard_all, a, b), player)
        IN  /\ state = gs
            /\ phase = FirstPhase_new(gs.revealed, gs.active)
            /\ result = Ok
            /\ last_trick = NoTrick
            /\ pile = {}
            /\ accepted = 0
            /\ tricks = [build |-> 0, score |-> 0]
            /\ belief = HandBelief_new
            /\ before = HandBelief_new
            /\ op = NoOp
            /\ nops = 0
            /\ NoGame
            /\ NoLearning

\* Round::play_action
play_action(action) ==
    LET r == on_action(phase, state, action)
        resolved == r.res = Ok /\ phase.played # None
    IN  /\ phase # Aborted
        /\ state' = r.gs
        /\ phase' = IF r.res = Panic THEN Aborted
                     ELSE IF r.res = Ok /\ r.rl = 0 THEN transition(r.ph)
                     ELSE r.ph
        /\ result' = r.res
        /\ last_trick' = IF resolved
                         THEN [lead |-> phase.played, follow |-> action.card,
                               leader |-> 1 - action.player,
                               winner |-> r.ph.active, kind |-> phase.kind]
                         ELSE last_trick
        /\ pile' = IF resolved THEN pile \cup {phase.played, action.card} ELSE pile
        /\ accepted' = IF r.res = Ok THEN accepted + 1 ELSE accepted
        /\ tricks' = IF ~resolved THEN tricks
                     ELSE IF phase.kind = "FirstPhase"
                     THEN [tricks EXCEPT !.build = @ + 1]
                     ELSE [tricks EXCEPT !.score = @ + 1]

PlayAction ==
    \E action \in Action :
        play_action(action) /\ UNCHANGED <<belief_vars, game_vars, learn_vars>>

Next == PlayAction

Spec == Init /\ [][Next]_vars

----------------------------------------------------------------------------
\* A round and the PlayerState of each player, which is given the events of
\* its player that start_round and play_action return.  The engine is in
\* the GameOver phase until start_round; one round is played.

\* Round::start_round: the new state and phase and the events per player
start_round(deck0, player) ==
    LET gs == GameState_new(deck0, player)
    IN  [gs |-> gs,
         ph |-> FirstPhase_new(gs.revealed, gs.active),
         events |-> [q \in Players |->
                        <<StartEvent(gs.hands[q], gs.trump, gs.active, gs.revealed)>>]]

\* the card of the loser's draw is disclosed to the winner and not to the loser
play_action_events_swapped(ph, gs, action, r) ==
    IF ph.played = None
    THEN [q \in Players |-> <<ActionEvent(action)>>]
    ELSE LET winner == r.ph.active
             loser == 1 - winner
             leader == 1 - action.player
             cards_played == <<ph.played, action.card>>
         IN  IF ph.kind = "FirstPhase"
             THEN [q \in Players |->
                     <<ActionEvent(action),
                       CardEvent(winner, ph.revealed),
                       CardEvent(loser, IF q = winner THEN deck_draw(gs.deck).card
                                        ELSE None),
                       TrickEvent(leader, winner, cards_played, r.ph.revealed,
                                  r.gs.score)>>]
             ELSE [q \in Players |->
                     <<ActionEvent(action),
                       TrickEvent(leader, winner, cards_played, None, r.gs.score)>>]

\* The events per player of an accepted play_action, r being what on_action
\* made of the phase ph and the state gs
play_action_events(ph, gs, action, r) ==
    IF ph.played = None
    THEN [q \in Players |-> <<ActionEvent(action)>>]
    ELSE LET winner == r.ph.active
             loser == 1 - winner
             leader == 1 - action.player
             cards_played == <<ph.played, action.card>>
         IN  IF ph.kind = "FirstPhase"
             THEN [q \in Players |->
                     <<ActionEvent(action),
                       CardEvent(winner, ph.revealed),
                       CardEvent(loser, IF q = loser THEN deck_draw(gs.deck).card
                                        ELSE None),
                       TrickEvent(leader, winner, cards_played, r.ph.revealed,
                                  r.gs.score)>>]
             ELSE [q \in Players |->
                     <<ActionEvent(action),
                       TrickEvent(leader, winner, cards_played, None, r.gs.score)>>]

\* What the operations that on_event applies to the belief of player q add
\* to the number of cards of the opponent
RECURSIVE hand_size_ops(_, _)
hand_size_ops(q, evs) ==
    IF evs = << >> THEN 0
    ELSE LET ev == Head(evs)
             d == IF ev.type = "Action" /\ ev.player # q THEN -1
                  ELSE IF ev.type = "Card" /\ ev.player # q THEN 1
                  ELSE 0
         IN  d + hand_size_ops(q, Tail(evs))

\* The observers at the end of a round in which every action was the first
\* of possible_actions()
RECURSIVE PlayOut(_, _, _)
PlayOut(ph, gs, obs) ==
    IF ph.kind = "GameOverPhase" \/ obs[0] = Aborted \/ obs[1] = Aborted THEN obs
    ELSE LET action == possible_actions(ph, gs)[1]
             r == on_action(ph, gs, action)
             evs == play_action_events(ph, gs, action, r)
         IN  PlayOut(IF r.rl = 0 THEN transition(r.ph) ELSE r.ph, r.gs,
                     [q \in Players |-> on_events(obs[q], evs[q])])

UsedObservers ==
    LET sr == start_round(shuffle(BasicCard_all, 1, 0), 1)
    IN  PlayOut(sr.ph, sr.gs,
                [q \in Players |-> on_events(PlayerState_new(q), sr.events[q])])

InitGame ==
    /\ state = GameState_new(BasicCard_all, None)
    /\ phase = GameOverPhase
    /\ result = Ok
    /\ last_trick = NoTrick
    /\ pile = {}
    /\ accepted = 0
    /\ tricks = [build |-> 0, score |-> 0]
    /\ belief = HandBelief_new
    /\ before = HandBelief_new
    /\ op = NoOp
    /\ nops = 0
    /\ used \in BOOLEAN
    /\ players = IF used THEN UsedObservers
                 ELSE [q \in Players |-> PlayerState_new(q)]
    /\ replay = [q \in Players |-> PlayerState_new(q)]
    /\ events = NoEvents
    /\ believed = [q \in Players |-> 0]
    /\ started = 0
    /\ NoLearning

StartRound ==
    \E a \in Strides, b \in 0 .. MaxOffset, player \in {None, 0, 1} :
        LET sr == start_round(shuffle(BasicCard_all, a, b), player)
        IN  /\ phase.kind = "GameOverPhase"
            /\ started = 0
            /\ state' = sr.gs
            /\ phase' = sr.ph
            /\ result' = Ok
            /\ last_trick' = NoTrick
            /\ pile' = {}
            /\ accepted' = 0
            /\ tricks' = [build |-> 0, score |-> 0]
            /\ events' = sr.events
            /\ players' = [q \in Players |-> on_events(players[q], sr.events[q])]
            /\ replay' = [q \in Players |-> on_events(replay[q], sr.events[q])]
            /\ believed' = [q \in Players |-> HandSize]
            /\ started' = started + 1
            /\ UNCHANGED <<belief_vars, used, learn_vars>>

\* play_action of one of the actions, and each player's events given to its
\* PlayerState
GamePlay(actions) ==
    \E action \in actions :
        LET r == on_action(phase, state, action)
            evs == IF r.res = Ok THEN play_action_events(phase, state, action, r)
                   ELSE NoEvents
        IN  /\ play_action(action)
            /\ events' = evs
            /\ players' = [q \in Players |-> on_events(players[q], evs[q])]
            /\ replay' = [q \in Players |-> on_events(replay[q], evs[q])]
            /\ believed' = [q \in Players |-> believed[q] + hand_size_ops(q, evs[q])]
            /\ UNCHANGED <<belief_vars, started, used, learn_vars>>

\* Any action is submitted
PlayActionGame == GamePlay(Action)

NextGame ==
    \/ StartRound
    \/ PlayActionGame

SpecGame == InitGame /\ [][NextGame]_vars

\* The submitted action is one of possible_actions(), as in the loops of
\* learning/training.rs and bin/basic_player.rs
PlayPossible == GamePlay(Elems(possible_actions(phase, state)))

NextPlay ==
    \/ StartRound
    \/ PlayPossible

SpecPlay == InitGame /\ [][NextPlay]_vars

----------------------------------------------------------------------------
\* A NeuralNet on its own: a net as NeuralNet::new leaves it (bias zero) with
\* weights of magnitude up to MaxWeight, and evaluate_with_gradient called on
\* it with the caller's buffer, which holds what the caller or the call
\* before left in it.

Magnitudes == {F32(v) : v \in (-MaxWeight) .. MaxWeight}

\* the layer sizes of the nets: inputs, outputs of every layer
LayerSizes == {<<1, 1>>, <<2, 1>>, <<1, 1, 1>>, <<1, 2, 1>>}

\* Layer::from_desc, with every choice of the random weights
Layers(n_in, n_out) ==
    {[m |-> m, bias |-> zeros(n_out), act |-> act] :
        m \in [1 .. n_out -> [1 .. n_in -> Magnitudes]],
        act \in ActivationFunction}

\* NeuralNet::new
Nets ==
    UNION {IF Len(sz) = 2
           THEN {[layers |-> <<l1>>, learning_rate |-> One, ni |-> 0] :
                    l1 \in Layers(sz[1], sz[2])}
           ELSE {[layers |-> <<l1, l2>>, learning_rate |-> One, ni |-> 0] :
                    l1 \in Layers(sz[1], sz[2]), l2 \in Layers(sz[2], sz[3])}
           : sz \in LayerSizes}

Transcendental == {"Sigmoid", "SymmetricSigmoid", "Exp"}

\* the layers evaluate exactly on x: exp and tanh are taken at 0 only
RECURSIVE Exact(_, _)
Exact(layers, x) ==
    IF layers = << >> THEN TRUE
    ELSE LET layer == Head(layers)
             pa == pre_activation(layer, x)
         IN  IF layer.act \in Transcendental /\ \E j \in 1 .. Len(pa) : pa[j] # Zero
             THEN FALSE
             ELSE Exact(Tail(layers), Layer_evaluate(layer, x))

InitNet ==
    LET gs == GameState_new(BasicCard_all, None)
    IN  /\ state = gs
        /\ phase = FirstPhase_new(gs.revealed, gs.active)
        /\ result = Ok
        /\ last_trick = NoTrick
        /\ pile = {}
        /\ accepted = 0
        /\ tricks = [build |-> 0, score |-> 0]
        /\ belief = HandBelief_new
        /\ before = HandBelief_new
        /\ op = NoOp
        /\ nops = 0
        /\ NoGame
        /\ trainer = NoTrainer
        /\ \E net \in Nets :
               nn = [net |-> net, input |-> << >>,
                     gradient |-> from_elem(NeuralNet_num_parameters(net), One),
                     output |-> << >>, called |-> FALSE, dirty |-> FALSE]

EvaluateWithGradient ==
    \E x \in [1 .. NeuralNet_num_inputs(nn.net) -> Magnitudes] :
        /\ Exact(nn.net.layers, x)
        /\ LET r == evaluate_with_gradient(nn.net, x, nn.gradient)
           IN  nn' = [nn EXCEPT !.input = x,
                                !.called = TRUE,
                                !.gradient = r.gradient,
                                !.output = r.output,
                                !.dirty = \E k \in 1 .. Len(nn.gradient) :
                                              nn.gradient[k] # Zero]
        /\ UNCHANGED <<round_vars, belief_vars, game_vars, trainer>>

NextNet == EvaluateWithGradient

SpecNet == InitNet /\ [][NextNet]_vars

----------------------------------------------------------------------------
\* SarsaLambda (learning/training.rs) on a Round and the two PlayerStates of
\* its players.  The model is a NeuralNet of one Linear layer; its learning
\* rate is zero, which keeps the fractions of the weights bounded, and the
\* calls of update_weights are recorded.

\* SarsaLambdaParameters::default
gamma == One

lambda == <<4, 5>>

\* PlayerState::state_size, action_size, state_action_size
state_size == NUM_BASIC_CARDS * 5 + 3

action_size == NUM_BASIC_CARDS

state_action_size == state_size + action_size

\* PlayerState::card_to_vector
card_to_vector(card, suit_order) ==
    [i \in 0 .. (NUM_BASIC_CARDS - 1) |->
        IF card # None /\ i = card_index(card, suit_order) THEN F32(1) ELSE F32(-1)]

\* Option<&ActionType>::None
NoAction == [player |-> None, card |-> None]

\* PlayerState::action_vector: the assertion fails for a card out of the hand
action_vector(ps, action) ==
    IF action.card \notin ps.hand THEN Aborted
    ELSE card_to_vector(action.card, ps.suit_order)

\* PlayerState::state_action_vector on the buffer sa (indices from 0)
state_action_vector(ps, sa, eval_state, action) ==
    IF action # NoAction /\ action.card \notin ps.hand THEN Aborted
    ELSE CHOOSE r \in
             {[i \in 0 .. (state_action_size - 1) |->
                  IF i < state_size
                  THEN IF ~eval_state THEN sv[i] ELSE s0[i]
                  ELSE IF action # NoAction THEN av[i - state_size] ELSE s0[i]] :
              sv \in {state_vector(ps)},
              s0 \in {sa},
              av \in {action_vector(ps, action)}} : TRUE

\* the array view handed to the model (indices from 1)
view(sa) ==
    CHOOSE r \in {[i \in 1 .. state_action_size |-> s0[i - 1]] : s0 \in {sa}} : TRUE

\* LearningModel for NeuralNet
evaluate_q(model, sa) ==
    CHOOSE q \in {evaluate(model, p)[1] : p \in {view(sa)}} : TRUE

evaluate_q_grad(model, sa, grad) ==
    CHOOSE r \in {[q |-> e.output[1], grad |-> e.gradient] :
                  e \in {evaluate_with_gradient(model, p, grad) :
                         p \in {view(sa)}}} : TRUE

\* Iterator::max_by: the last of the maximal elements
max_by(qs) ==
    CHOOSE j \in 1 .. Len(qs) :
        /\ \A k \in 1 .. j : RLeq(qs[k], qs[j])
        /\ \A k \in (j + 1) .. Len(qs) : RLess(qs[k], qs[j])

\* SarsaPlayer::greedy_action: the action, the buffer as it is left and, as
\* history, the Q-value of every action
greedy_action(ps, model, actions, sa) ==
    IF actions = << >> THEN Aborted
    ELSE IF \E j \in 1 .. Len(actions) : actions[j].card \notin ps.hand
    THEN Aborted
    ELSE CHOOSE r \in
             {[action |-> actions[max_by(qs)],
               sa |-> state_action_vector(ps, s0, FALSE, actions[max_by(qs)]),
               qs |-> qs] :
              qs \in {[j \in 1 .. Len(actions) |->
                          evaluate_q(model,
                                     state_action_vector(ps, s1, FALSE,
                                                         actions[j]))] :
                      s1 \in {sa}},
              s0 \in {sa}} : TRUE

\* SarsaPlayer::epsilon_greedy_action; random says that r < eps and pick is
\* the index that rng.choose draws
epsilon_greedy_action(ps, model, random, pick, actions, sa) ==
    IF random
    THEN IF actions = << >> THEN Aborted
         ELSE LET v == state_action_vector(ps, sa, TRUE, actions[pick])
              IN  IF actions[pick].card \notin ps.hand THEN Aborted
                  ELSE [action |-> actions[pick], sa |-> v, qs |-> << >>]
    ELSE greedy_action(ps, model, actions,
                       state_action_vector(ps, sa, TRUE, NoAction))

\* Round::is_game_over
is_game_over(ph) == ph.kind = "GameOverPhase"

\* Round::winner: the player with the higher score, player 0 on a tie
Round_winner(gs) == IF gs.score[1] > gs.score[0] THEN 1 ELSE 0

\* The models of the trainer: one Linear layer on the state-action vector,
\* with weights zero, or with the weight i on the i-th entry of the action
\* part
TrainNets ==
    {[layers |-> <<[m |-> <<[i \in 1 .. state_action_size |->
                                IF i > state_size THEN F32(w * (i - state_size))
                                ELSE Zero]>>,
                    bias |-> <<Zero>>,
                    act |-> "Linear"]>>,
      learning_rate |-> Zero,
      ni |-> 0] : w \in {0, 1}}

NoStep == [branch |-> "none", active |-> None, chosen |-> NoAction, sv |-> << >>,
           av |-> << >>, qs |-> << >>, offered |-> << >>, q_predict |-> Zero, updates |-> << >>]

\* SarsaLambda::new
SarsaLambda_new(model) ==
    [pc |-> "new",
     model |-> model,
     e_trace |-> [q \in Players |-> zeros(NeuralNet_num_parameters(model))],
     last_q |-> [q \in Players |-> Zero],
     dual_train |-> FALSE,
     player_action |-> [i \in 0 .. (state_action_size - 1) |-> Zero],
     grad |-> zeros(NeuralNet_num_parameters(model)),
     error |-> Ok,
     step |-> NoStep,
     terminal |-> << >>]

InitTrain ==
    /\ state = GameState_new(BasicCard_all, None)
    /\ phase = GameOverPhase
    /\ result = Ok
    /\ last_trick = NoTrick
    /\ pile = {}
    /\ accepted = 0
    /\ tricks = [build |-> 0, score |-> 0]
    /\ belief = HandBelief_new
    /\ before = HandBelief_new
    /\ op = NoOp
    /\ nops = 0
    /\ NoGame
    /\ nn = NoNet
    /\ \E model \in TrainNets : trainer = SarsaLambda_new(model)

\* train_on_episode up to its loop: start_round(None), the traces zeroed,
\* the Start events given to the PlayerStates, the two buffers allocated
TrainStart ==
    \E a \in Strides, b \in 0 .. MaxOffset, dual_train \in BOOLEAN :
        LET sr == start_round(shuffle(BasicCard_all, a, b), None)
        IN  /\ trainer.pc = "new"
            /\ state' = sr.gs
            /\ phase' = sr.ph
            /\ result' = Ok
            /\ last_trick' = NoTrick
            /\ pile' = {}
            /\ accepted' = 0
            /\ tricks' = [build |-> 0, score |-> 0]
            /\ events' = sr.events
            /\ players' = [q \in Players |-> on_events(players[q], sr.events[q])]
            /\ trainer' = [trainer EXCEPT
                   !.pc = "loop",
                   !.dual_train = dual_train,
                   !.e_trace = [q \in Players |->
                                   zeros(NeuralNet_num_parameters(trainer.model))],
                   !.player_action = [i \in 0 .. (state_action_size - 1) |-> Zero],
                   !.grad = zeros(NeuralNet_num_parameters(trainer.model))]
            /\ UNCHANGED <<belief_vars, replay, believed, started, used, nn>>

\* The two terminal updates that follow the loop
terminal_updates(tr, gs) ==
    LET w == Round_winner(gs)
        l == 1 - w
        e1 == RSub(One, tr.last_q[w])
        e2 == RSub(Zero, tr.last_q[l])
        m1 == update_weights(tr.model, e1, tr.e_trace[w])
    IN  [tr EXCEPT
            !.pc = "done",
            !.model = update_weights(m1, e2, tr.e_trace[l]),
            !.terminal = <<[err |-> e1, dir |-> tr.e_trace[w], player |-> w],
                           [err |-> e2, dir |-> tr.e_trace[l], player |-> l]>>]

\* the weight update is made along the trace that holds the gradient already
td_update_trace_first(tr, active, q_predict, grad) ==
    LET err == RSub(RMul(gamma, q_predict), tr.last_q[active])
        e_trace == VAdd(VScale(RMul(lambda, gamma), tr.e_trace[active]), grad)
    IN  [tr EXCEPT
            !.model = update_weights(@, err, e_trace),
            !.step.updates = <<[err |-> err, dir |-> e_trace, player |-> active]>>,
            !.e_trace[active] = e_trace,
            !.last_q[active] = q_predict]

\* The update of the model from the previous turn, then of the eligibility
\* trace and last_q of the player active; the call of update_weights is
\* recorded
td_update(tr, active, q_predict, grad) ==
    LET err == RSub(RMul(gamma, q_predict), tr.last_q[active])
    IN  [tr EXCEPT
            !.model = update_weights(@, err, tr.e_trace[active]),
            !.step.updates = <<[err |-> err, dir |-> tr.e_trace[active],
                                player |-> active]>>,
            !.e_trace[active] = VAdd(VScale(RMul(lambda, gamma), @), grad),
            !.last_q[active] = q_predict]

\* One pass of the loop of train_on_episode, and what follows the loop when
\* the pass ends the game
TrainStep ==
    /\ trainer.pc = "loop"
    /\ \E random \in BOOLEAN, pick \in 1 .. HandSize + 1 :
        \E active \in {phase.active}, actions \in {possible_actions(phase, state)} :
            /\ IF random THEN pick <= Len(actions) \/ (actions = << >> /\ pick = 1)
               ELSE pick = 1
            /\ \E sel \in {epsilon_greedy_action(players[active], trainer.model,
                                                  random, pick, actions,
                                                  trainer.player_action)} :
                   IF sel = Aborted
                   THEN /\ trainer' = [trainer EXCEPT !.pc = "panic"]
                        /\ UNCHANGED <<round_vars, players>>
                   ELSE \E eg \in {evaluate_q_grad(trainer.model, sel.sa,
                                                    trainer.grad)},
                           r \in {on_action(phase, state, sel.action)} :
                       LET upd == trainer.dual_train \/ active = 0
                           st == [branch |-> IF random THEN "random" ELSE "greedy",
                                  active |-> active,
                                  chosen |-> sel.action,
                                  sv |-> state_vector(players[active]),
                                  av |-> card_to_vector(sel.action.card,
                                                        players[active].suit_order),
                                  qs |-> sel.qs,
                                  offered |-> actions,
                                  q_predict |-> eg.q,
                                  updates |-> << >>]
                           t0 == [trainer EXCEPT
                                     !.player_action = sel.sa,
                                     !.grad = eg.grad,
                                     !.step = st]
                           t1 == IF upd THEN td_update(t0, active, eg.q, eg.grad)
                                 ELSE t0
                           nph == IF r.res = Ok /\ r.rl = 0 THEN transition(r.ph)
                                  ELSE r.ph
                       IN  /\ play_action(sel.action)
                           /\ IF r.res = Panic
                              THEN /\ trainer' = [t1 EXCEPT !.pc = "panic"]
                                   /\ UNCHANGED players
                              ELSE IF r.res # Ok
                              THEN /\ trainer' = [t1 EXCEPT !.pc = "error",
                                                            !.error = r.res]
                                   /\ UNCHANGED players
                              ELSE /\ players' =
                                         [q \in Players |->
                                             on_events(players[q], events[q])]
                                   /\ trainer' = IF is_game_over(nph)
                                                 THEN terminal_updates(t1, r.gs)
                                                 ELSE t1
            /\ UNCHANGED <<belief_vars, replay, events, believed, started, used, nn>>

NextTrain ==
    \/ TrainStart
    \/ TrainStep

SpecTrain == InitTrain /\ [][NextTrain]_vars

----------------------------------------------------------------------------
\* A HandBelief under any sequence of at most MaxOps of its operations

InitBelief ==
    LET gs == GameState_new(BasicCard_all, None)
    IN  /\ state = gs
        /\ phase = FirstPhase_new(gs.revealed, gs.active)
        /\ result = Ok
        /\ last_trick = NoTrick
        /\ pile = {}
        /\ accepted = 0
        /\ tricks = [build |-> 0, score |-> 0]
        /\ belief = HandBelief_new
        /\ before = HandBelief_new
        /\ op = NoOp
        /\ nops = 0
        /\ NoGame
        /\ NoLearning

BeliefOp(name, card, s, n, probs) ==
    /\ nops < MaxOps
    /\ belief' = probs
    /\ before' = belief
    /\ op' = [name |-> name, card |-> card, suit |-> s, n |-> n]
    /\ nops' = nops + 1
    /\ UNCHANGED <<round_vars, game_vars, learn_vars>>

Clear == BeliefOp("clear", None, None, 0, clear(belief))

RandomCardsDrawn ==
    \E n \in {0, 1, HandSize} :
        BeliefOp("random_cards_drawn", None, None, n, random_cards_drawn(belief, n))

EmptySuit ==
    \E s \in Suits : BeliefOp("empty_suit", None, s, 0, empty_suit(belief, s))

CardDrawn ==
    \E c \in Cards : BeliefOp("card_drawn", c, None, 0, card_drawn(belief, c))

CardPlayed ==
    \E c \in Cards : BeliefOp("card_played", c, None, 0, card_played(belief, c))

CardSeen ==
    \E c \in Cards : BeliefOp("card_seen", c, None, 0, card_seen(belief, c))

NextBelief ==
    \/ Clear
    \/ RandomCardsDrawn
    \/ EmptySuit
    \/ CardDrawn
    \/ CardPlayed
    \/ CardSeen

SpecBelief == InitBelief /\ [][NextBelief]_vars

----------------------------------------------------------------------------
\* Readers of the phase fields (GameOverPhase has none; only FirstPhase has
\* a revealed card)

Led == IF phase.kind \in {"FirstPhase", "SecondPhase"} THEN phase.played ELSE None

Revealed == IF phase.kind = "FirstPhase" THEN phase.revealed ELSE None

Active == IF phase.kind \in {"FirstPhase", "SecondPhase"} THEN phase.active ELSE None

Opt(c) == IF c = None THEN {} ELSE {c}

ErrorKinds == {"WrongPlayer", "MissingCard", "NotFollowingSuit", "GameOver"}

\* The rule of the game for a trick: the leader wins
LeaderWins(trump, lead, follow) ==
    \/ suit(lead) = trump /\ suit(follow) # trump
    \/ suit(follow) # trump /\ suit(follow) # suit(lead)
    \/ suit(follow) = suit(lead) /\ rank(lead) > rank(follow)

HoldsSuit(p, s) == \E c \in Elems(state.hands[p]) : suit(c) = s

\* The rule of the game for an action
Legal(a) ==
    /\ phase.kind # "GameOverPhase"
    /\ a.player = Active
    /\ a.card \in Elems(state.hands[a.player])
    /\ (Led # None /\ HoldsSuit(a.player, suit(Led))) => suit(a.card) = suit(Led)

----------------------------------------------------------------------------
\* C1: whenever play_action returns an error, the engine state (hands, deck,
\* score, trump, revealed card, led card, active player, rounds left) is
\* exactly as before the call.
C1_ErrorLeavesStateUnchanged ==
    [][result'.kind \in ErrorKinds => (state' = state /\ phase' = phase)]_vars

\* C2: the deck, the two hands, the pile of the resolved tricks, the
\* revealed card and the led card are pairwise disjoint and together hold
\* every card of the deck exactly once.
C2_AllCardsAccounted ==
    /\ Elems(state.deck) \cup Elems(state.hands[0]) \cup Elems(state.hands[1])
         \cup pile \cup Opt(Revealed) \cup Opt(Led) = Cards
    /\ Len(state.deck) + Len(state.hands[0]) + Len(state.hands[1])
         + Cardinality(pile) + Cardinality(Opt(Revealed)) + Cardinality(Opt(Led))
       = NUM_BASIC_CARDS

\* The classification of an action that C3 states, in its order
Classify(a) ==
    IF phase.kind = "GameOverPhase" THEN Err("GameOver", None)
    ELSE IF a.player # Active THEN Err("WrongPlayer", Active)
    ELSE IF a.card \notin Elems(state.hands[Active]) THEN Err("MissingCard", None)
    ELSE IF Led # None /\ HoldsSuit(Active, suit(Led)) /\ suit(a.card) # suit(Led)
    THEN Err("NotFollowingSuit", None)
    ELSE Ok

\* C3: play_action classifies every action as GameOver, WrongPlayer(active),
\* MissingCard, NotFollowingSuit or accepted, in this order, and accepts an
\* action exactly when it is legal.
C3_Classification ==
    phase # Aborted =>
        \A a \in Action :
            LET res == on_action(phase, state, a).res
            IN  /\ res = Classify(a)
                /\ (res = Ok) <=> Legal(a)

\* A follow was rejected as NotFollowingSuit, and in the state it left some
\* action is a WrongPlayer, some a MissingCard and some is accepted.
C3_Witness ==
    /\ result.kind = "NotFollowingSuit"
    /\ \E a, b, c \in Action :
          /\ on_action(phase, state, a).res.kind = "WrongPlayer"
          /\ on_action(phase, state, b).res.kind = "MissingCard"
          /\ on_action(phase, state, c).res.kind = "Ok"

NoDuplicates(v) == \A i, j \in 1 .. Len(v) : v[i] = v[j] => i = j

\* C4: possible_actions() returns exactly the legal actions of the active
\* player, one per card of the hand, only those of the led suit when a card
\* is led and the active player holds that suit; play_action rejects none.
C4_PossibleActionsLegal ==
    phase # Aborted =>
        LET pa == possible_actions(phase, state)
        IN  /\ NoDuplicates(pa)
            /\ Elems(pa) = {a \in Action : Legal(a)}
            /\ \A a \in Elems(pa) : on_action(phase, state, a).res = Ok

\* A card is led and the follower, who holds the led suit and another suit,
\* is offered fewer actions than cards.
C4_Witness ==
    /\ Led # None
    /\ Len(possible_actions(phase, state)) > 0
    /\ Len(possible_actions(phase, state)) < Len(state.hands[Active])

\* C5: for every trump and every two distinct cards score_hand says that
\* the leader wins exactly when the rule of the game says so, and the
\* engine makes that player the winner of the trick.  (The first conjunct
\* does not depend on the state and is evaluated at round start.)
C5_TrickWinner ==
    /\ accepted = 0 =>
          \A t \in Suits, l \in Cards, f \in Cards :
              l # f => score_hand(t, l, f) =
                         [is_some |-> TRUE, value |-> LeaderWins(t, l, f)]
    /\ last_trick # NoTrick =>
          last_trick.winner =
              IF LeaderWins(state.trump, last_trick.lead, last_trick.follow)
              THEN last_trick.leader ELSE 1 - last_trick.leader

\* The follower has won a trick by trumping a lead of another suit.
C5_Witness ==
    /\ last_trick # NoTrick
    /\ suit(last_trick.follow) = state.trump
    /\ suit(last_trick.lead) # state.trump
    /\ last_trick.winner = 1 - last_trick.leader

\* The leader has won a trick with the higher card of the led suit.
C5_WitnessRank ==
    /\ last_trick # NoTrick
    /\ suit(last_trick.follow) = suit(last_trick.lead)
    /\ rank(last_trick.lead) > rank(last_trick.follow)
    /\ last_trick.winner = last_trick.leader

\* C6: the round is over after exactly 4 * HandSize accepted actions, which
\* are the two actions of each resolved trick, HandSize tricks of the build
\* sub-phase and then HandSize of the score sub-phase, and rejected actions
\* do not advance the round.
C6_RoundLength ==
    LET resolved == tricks.build + tricks.score
    IN  /\ accepted = 2 * resolved + Cardinality(Opt(Led))
        /\ phase.kind = "FirstPhase" <=> resolved < HandSize
        /\ phase.kind = "GameOverPhase" <=> accepted = 4 * HandSize
        /\ tricks.score > 0 => tricks.build = HandSize

\* C7: possible_actions() is empty exactly when the phase is GameOver.
C7_EmptyIffGameOver ==
    phase # Aborted =>
        (possible_actions(phase, state) = << >> <=> phase.kind = "GameOverPhase")

\* C8 as claimed: the two hands have the same size in every state.
C8_EqualHands == Len(state.hands[0]) = Len(state.hands[1])

HandLen(p) == Len(state.hands[p])

HandLenNext(p) == Len(state'.hands[p])

\* The winner of a resolved trick by the rule of the game
RuleWinner(t) ==
    IF LeaderWins(state.trump, t.lead, t.follow) THEN t.leader ELSE 1 - t.leader

\* One step of the hand sizes
C8_Step ==
    IF accepted' = accepted
    THEN \* rejected
         state'.hands = state.hands
    ELSE IF tricks' = tricks
    THEN \* accepted lead
         /\ HandLenNext(Active) = HandLen(Active) - 1
         /\ HandLenNext(1 - Active) = HandLen(1 - Active)
    ELSE IF tricks'.build # tricks.build
    THEN \* accepted follow of a build trick
         /\ HandLenNext(Active) = HandLen(Active)
         /\ HandLenNext(1 - Active) = HandLen(1 - Active) + 1
    ELSE \* accepted follow of a score trick
         /\ HandLenNext(Active) = HandLen(Active) - 1
         /\ HandLenNext(1 - Active) = HandLen(1 - Active)

\* C8 (amended): both hands hold HandSize cards at round start; an accepted
\* lead takes one card out of the leader's hand; the accepted follow of a
\* build trick leaves the follower's hand at its size and makes the leader's
\* one card larger, that of a score trick takes one card out of the
\* follower's hand; a rejected action changes no hand.
C8_HandSizes ==
    /\ HandLen(0) = HandSize /\ HandLen(1) = HandSize
    /\ [][C8_Step]_vars

\* A card is led in the score sub-phase after a resolved score trick: the
\* hands are smaller than at round start and differ in size.
C8_Witness ==
    /\ tricks.score > 0
    /\ Led # None
    /\ HandLen(Active) = HandLen(1 - Active) + 1
    /\ HandLen(Active) < HandSize

C9_Inv ==
    /\ state.score[0] + state.score[1] = tricks.score
    /\ phase.kind = "FirstPhase" => state.score = [p \in Players |-> 0]
    /\ phase.kind = "GameOverPhase" => state.score[0] + state.score[1] = HandSize

C9_Step ==
    IF tricks'.score # tricks.score
    THEN state'.score = [state.score EXCEPT ![RuleWinner(last_trick)'] = @ + 1]
    ELSE state'.score = state.score

\* C9: score[0] + score[1] is the number of resolved score tricks; the score
\* changes neither on a lead nor in the build sub-phase, a resolved score
\* trick adds exactly one point to its winner only, and the sum is HandSize
\* at GameOver.
C9_Score == []C9_Inv /\ [][C9_Step]_vars

\* The round is over and both players have won a score trick.
C9_Witness ==
    /\ phase.kind = "GameOverPhase"
    /\ state.score[0] > 0
    /\ state.score[1] > 0

C10_Step ==
    IF accepted' = accepted \/ phase' = Aborted
    THEN TRUE
    ELSE IF tricks' = tricks
    THEN \* accepted lead: the other player is to follow
         /\ Led = None /\ Led' # None
         /\ Active' = 1 - Active
    ELSE \* accepted follow: the leader was the other player, the winner leads
         /\ last_trick'.leader = 1 - Active
         /\ phase'.kind # "GameOverPhase" =>
               /\ Active' = RuleWinner(last_trick)'
               /\ Led' = None

\* C10: after an accepted lead the active player is the other player, who
\* alone can follow; after a resolved trick the active player is the winner
\* of the trick and no card is led, also when the build sub-phase ends.
C10_Turns == [][C10_Step]_vars

\* The follower has won the last build trick and opens the score sub-phase.
C10_Witness ==
    /\ phase.kind = "SecondPhase"
    /\ tricks.score = 0
    /\ Led = None
    /\ last_trick.winner = 1 - last_trick.leader
    /\ Active = last_trick.winner
    /\ Active = 1

\* C11: starting a round leaves each hand with HandSize cards, one revealed
\* card whose suit is the trump, 2 * HandSize - 1 cards in the deck, score
\* [0, 0], no led card and 2 * HandSize tricks to play, with the given
\* starting player active.
C11_StartRound ==
    (accepted = 0 /\ result = Ok) =>
        /\ \A a \in Strides, b \in 0 .. MaxOffset, player \in Players :
              GameState_new(shuffle(BasicCard_all, a, b), player).active = player
        /\ Len(state.hands[0]) = HandSize
        /\ Len(state.hands[1]) = HandSize
        /\ state.revealed \in Cards
        /\ suit(state.revealed) = state.trump
        /\ Revealed = state.revealed
        /\ Len(state.deck) = NUM_BASIC_CARDS - 2 * HandSize - 1
        /\ Elems(state.deck) \cup Elems(state.hands[0]) \cup Elems(state.hands[1])
             \cup {state.revealed} = Cards
        /\ state.score = [p \in Players |-> 0]
        /\ state.played = None
        /\ Led = None
        /\ state.rounds_left = 2 * HandSize
        /\ Active = state.active

\* A round has been started with player 1 to lead.
C11_Witness ==
    /\ accepted = 0
    /\ result = Ok
    /\ state.active = 1
    /\ Active = 1
    /\ Len(state.hands[1]) = HandSize

\* C12 as claimed: for every trump and every two distinct cards a and b, the
\* leader wins the trick of a led and b following exactly when the follower
\* wins the trick of b led and a following.
C12_SwapSwapsWinner ==
    accepted = 0 =>
        \A t \in Suits, a \in Cards, b \in Cards :
            a # b => (score_hand(t, a, b).value <=> ~score_hand(t, b, a).value)

\* Two cards of two different suits, neither of them the trump
TwoPlainSuits(t, a, b) == suit(a) # suit(b) /\ suit(a) # t /\ suit(b) # t

\* C12 (amended): for every trump and every two distinct cards a and b,
\* swapping the two players' cards swaps the winner, except when a and b are
\* of two different suits neither of which is the trump: then the leader
\* wins whichever of the two cards is led.
C12_SwapWinner ==
    accepted = 0 =>
        \A t \in Suits, a \in Cards, b \in Cards :
            a # b =>
                IF TwoPlainSuits(t, a, b)
                THEN score_hand(t, a, b).value /\ score_hand(t, b, a).value
                ELSE score_hand(t, a, b).value <=> ~score_hand(t, b, a).value

\* The leader has won a trick in which the follower discarded a card of
\* another plain suit, and would have lost it with the cards swapped; and
\* score_hand orders two cards of one suit by rank.
C12_Witness ==
    /\ last_trick # NoTrick
    /\ TwoPlainSuits(state.trump, last_trick.lead, last_trick.follow)
    /\ last_trick.winner = last_trick.leader
    /\ score_hand(state.trump, last_trick.follow, last_trick.lead).value
    /\ \E a \in Cards, b \in Cards :
          /\ suit(a) = suit(b)
          /\ score_hand(state.trump, a, b).value
          /\ ~score_hand(state.trump, b, a).value

\* C15: whatever the previous state of card c, p(c) = 1 immediately after
\* card_drawn(c) and p(c) = 0 immediately after card_played(c) or
\* card_seen(c).
C15_AfterCard ==
    /\ op.name = "card_drawn" => has_card(belief, op.card) = One
    /\ op.name \in {"card_played", "card_seen"} => has_card(belief, op.card) = Zero

\* A card that the player owned has been seen, and a card that had been
\* played could be drawn.
C15_Witness ==
    /\ op.name = "card_seen"
    /\ before[op.card] = Owns
    /\ \E c \in Cards : belief[c] = Played /\ has_card(card_drawn(belief, c), c) = One

OfSuit(s) == {c \in Cards : suit(c) = s}

ProbCards(probs) == {c \in Cards : is_prob(probs[c])}

\* C16: immediately after empty_suit(s), p(c) = 0 for every card c of suit
\* s, whatever the previous states of those cards, and the probability mass
\* they held has been moved to the Prob cards of the other suits.
C16_EmptySuit ==
    op.name = "empty_suit" =>
        /\ \A c \in OfSuit(op.suit) : has_card(belief, c) = Zero
        /\ SumP(belief, ProbCards(belief) \ OfSuit(op.suit))
             = RAdd(SumP(before, ProbCards(before) \ OfSuit(op.suit)),
                    SumP(before, OfSuit(op.suit)))

\* C17 as claimed: a Void card stays Void under every operation but a
\* random_cards_drawn(n) with n > 0, which resets every Void card to Prob.
C17_VoidStaysVoid ==
    \A c \in Cards :
        before[c] = Void /\ op.name # "new" =>
            IF op.name = "random_cards_drawn" /\ op.n > 0
            THEN is_prob(belief[c])
            ELSE belief[c] = Void

\* C17 (amended): a Void card stays Void under clear, empty_suit and the
\* card_seen, card_drawn and card_played of any other card; its own
\* card_seen or card_played makes it Played and its own card_drawn makes it
\* Owns; random_cards_drawn(n), for every n and also for n = 0, resets every
\* Void card to Prob(0) before distributing.  No operation but
\* random_cards_drawn turns a Void card into a Prob card.
C17_VoidSticky ==
    \A c \in Cards :
        before[c] = Void /\ op.name # "new" =>
            CASE op.name = "random_cards_drawn" ->
                    belief[c] = Prob(RDiv(F32(op.n), num_candidates(belief)))
              [] op.name \in {"card_seen", "card_played"} /\ op.card = c ->
                    belief[c] = Played
              [] op.name = "card_drawn" /\ op.card = c ->
                    belief[c] = Owns
              [] OTHER ->
                    belief[c] = Void

\* A suit was void while other cards held probability; a card of another
\* suit has been played, the suit is still void, and a random draw would
\* make its cards Prob cards again.
C17_Witness ==
    /\ op.name = "card_played"
    /\ \E c \in Cards :
          /\ before[c] = Void
          /\ c # op.card
          /\ belief[c] = Void
          /\ is_prob(random_cards_drawn(belief, 1)[c])
    /\ \E c \in Cards : is_prob(before[c]) /\ before[c].p # Zero

\* C13: after the clear() of a Start event and any sequence of HandBelief
\* operations that a game produces, num_cards() of each player's belief is
\* the believed hand size: the sum of n over the random_cards_drawn(n), plus
\* one per card_drawn, minus one per card_played.
C13_NumCards ==
    started > 0 =>
        \A q \in Players :
            players[q] # Aborted =>
                num_cards(players[q].oppo) = F32(believed[q])

\* C14: after any sequence of HandBelief operations that the observer issues
\* during a round, 0 <= p(c) <= 1 for every card c.
C14_Probability ==
    \A q \in Players :
        players[q] # Aborted =>
            \A c \in Cards :
                /\ RLeq(Zero, has_card(players[q].oppo, c))
                /\ RLeq(has_card(players[q].oppo, c), One)

\* C18: after the observer of each player has processed the events of the
\* round start and of every accepted play_action, its hand is the engine's
\* hand of the player and its trump, revealed card, led card, active player
\* and score are the engine's.
C18_ViewMatchesEngine ==
    (started > 0 /\ phase # Aborted) =>
        \A q \in Players :
            /\ players[q].hand = Elems(state.hands[q])
            /\ players[q].trump = state.trump
            /\ players[q].revealed = Revealed
            /\ players[q].leading_card = Led
            /\ phase.kind # "GameOverPhase" => players[q].active = Active
            /\ players[q].score = state.score

\* The events of an accepted play_action as player q can tell them from its
\* own PlayerState ps, the cards played, its own draw and the revealed card
\* of the delivered events evs
ExpectedEvents(q, ps, evs) ==
    LET action == [player |-> evs[1].player, card |-> evs[1].card]
        own_draw == IF Len(evs) >= 3 THEN evs[3].card ELSE None
        new_revealed == IF Len(evs) >= 4 THEN evs[4].revealed ELSE None
    IN  IF ps.leading_card = None
        THEN <<ActionEvent(action)>>
        ELSE LET leader == 1 - action.player
                 winner == IF score_hand(ps.trump, ps.leading_card, action.card).value
                           THEN leader ELSE action.player
                 loser == 1 - winner
                 cards_played == <<ps.leading_card, action.card>>
             IN  IF ps.revealed # None
                 THEN <<ActionEvent(action),
                        CardEvent(winner, ps.revealed),
                        CardEvent(loser, IF q = loser THEN own_draw ELSE None),
                        TrickEvent(leader, winner, cards_played, new_revealed,
                                   ps.score)>>
                 ELSE <<ActionEvent(action),
                        TrickEvent(leader, winner, cards_played, None,
                                   [ps.score EXCEPT ![winner] = @ + 1])>>

C19_Step ==
    /\ started' > started =>
          \A q \in Players :
              /\ Len(events'[q]) = 1
              /\ events'[q][1] = StartEvent(state'.hands[q], state'.trump,
                                            Active', Revealed')
              /\ Elems(events'[q][1].hand) \cap Elems(state'.hands[1 - q]) = {}
              /\ Elems(events'[q][1].hand) \cap Elems(state'.deck) = {}
    /\ (started' = started /\ accepted' > accepted) =>
          \A q \in Players :
              /\ events'[q] = ExpectedEvents(q, players[q], events'[q])
              /\ Len(events'[q]) = 4 =>
                     /\ events'[q][3].card = None <=> events'[q][3].player # q
                     /\ Len(state'.hands[events'[q][3].player])
                          = Len(state.hands[events'[q][3].player])
                            + (IF events'[q][3].player = events'[q][1].player
                               THEN 0 ELSE 1)

\* C19: the events delivered to a player are determined by what the player
\* may know: the Start event holds the player's own hand and no card of the
\* opponent or the deck, and the events of every accepted action are those
\* that follow from the player's own view, the cards played, the revealed
\* cards and its own draws; the draw of the opponent from the deck arrives
\* as a Card event without a card and with the opponent as recipient.
C19_NoLeak == [][C19_Step]_vars

\* C20: an observer that went through an earlier round and is updated
\* event by event is, after the Start event and after every later event,
\* equal in every field and in its state vector to a PlayerState::new that
\* was given the events of the current round only.
C20_Replay ==
    started > 0 =>
        \A q \in Players :
            /\ players[q] = replay[q]
            /\ state_vector(players[q]) = state_vector(replay[q])

\* The observers had been through an earlier round that left them different
\* from new ones in hand, belief, trump, score, played cards and suit order;
\* two tricks of the current round are resolved.
C20_Witness ==
    /\ used
    /\ started > 0
    /\ tricks.build >= 2
    /\ \A q \in Players :
          /\ UsedObservers[q].oppo # PlayerState_new(q).oppo
          /\ UsedObservers[q].played_cards # {}
          /\ UsedObservers[q].trump # PlayerState_new(q).trump
          /\ UsedObservers[q].suit_order # PlayerState_new(q).suit_order
          /\ UsedObservers[q].score # PlayerState_new(q).score
          /\ players[q].played_cards # UsedObservers[q].played_cards

Held(ps, s) == Cardinality({c \in ps.hand : suit(c) = s})

\* C21: after every event the suit ordering of an observer is a permutation
\* of the four suits, the trump suit first, the other suits in descending
\* order of the number of cards of the suit in the observer's hand, ties
\* broken by the ordinal of the suit.
C21_SuitOrder ==
    \A q \in Players :
        (started > 0 /\ players[q] # Aborted) =>
            LET ps == players[q]
                so == ps.suit_order
            IN  /\ Len(so) = NumSuits
                /\ Elems(so) = Suits
                /\ so[1] = ps.trump
                /\ \A i \in 2 .. NumSuits : \A j \in 2 .. NumSuits :
                       i < j =>
                           \/ Held(ps, so[i]) > Held(ps, so[j])
                           \/ Held(ps, so[i]) = Held(ps, so[j]) /\ so[i] < so[j]

\* C22: in the state vector of every observer, of player 1 as of player 0,
\* the slot after the turn flag (261 in the source) encodes the observer's
\* own score and the last slot (262) the opponent's score.
C22_ScoreSlots ==
    \A q \in Players :
        players[q] # Aborted =>
            LET ps == players[q]
                v == state_vector(ps)
                N == NUM_BASIC_CARDS
            IN  /\ v[5 * N + 1] = score_to_state(ps.score[q])
                /\ v[5 * N + 2] = score_to_state(ps.score[1 - q])

\* The derivative of an activation function at x (at 0 for exp and tanh;
\* the ReLU has none at 0)
Derivative(act, x) ==
    CASE act = "Linear" -> One
      [] act = "Sigmoid" -> <<1, 4>>
      [] act = "SymmetricSigmoid" -> RMul(SS_XSCALE, SS_FSCALE)
      [] act = "ReLU" -> IF RLess(Zero, x) THEN One ELSE Zero
      [] act = "Exp" -> One

\* every ReLU of the layers is evaluated off 0
RECURSIVE Differentiable(_, _)
Differentiable(layers, x) ==
    IF layers = << >> THEN TRUE
    ELSE LET layer == Head(layers)
             pa == pre_activation(layer, x)
         IN  IF layer.act = "ReLU" /\ \E j \in 1 .. Len(pa) : pa[j] = Zero
             THEN FALSE
             ELSE Differentiable(Tail(layers), Layer_evaluate(layer, x))

\* The chain rule: the partial derivatives of the scalar output of the
\* layers by their parameters (g: weights row-major then bias, layer after
\* layer) and by their input x (dx)
RECURSIVE Partials(_, _)
Partials(layers, x) ==
    IF layers = << >> THEN [g |-> << >>, dx |-> <<One>>]
    ELSE LET layer == Head(layers)
             pa == pre_activation(layer, x)
             rest == Partials(Tail(layers), Layer_evaluate(layer, x))
             n_in == Layer_num_inputs(layer)
             n_out == Layer_num_outputs(layer)
             delta == [j \in 1 .. n_out |->
                          RMul(rest.dx[j], Derivative(layer.act, pa[j]))]
         IN  [g |-> [k \in 1 .. (n_in * n_out) |->
                        RMul(delta[((k - 1) \div n_in) + 1], x[((k - 1) % n_in) + 1])]
                    \o delta \o rest.g,
              dx |-> [i \in 1 .. n_in |->
                         dot(delta, [j \in 1 .. n_out |-> layer.m[j][i]])]]

\* the net with h added to its k-th parameter
Shifted(net, k, h) ==
    [net EXCEPT !.layers =
        step_layers(net.layers, h,
                    [i \in 1 .. NeuralNet_num_parameters(net) |->
                        IF i = k THEN One ELSE Zero])]

\* the central finite difference of evaluate by the k-th parameter
FiniteDifference(net, x, k) ==
    RMul(RSub(evaluate(Shifted(net, k, One), x)[1],
              evaluate(Shifted(net, k, F32(-1)), x)[1]),
         <<1, 2>>)

AllLinear(net) == \A l \in 1 .. Len(net.layers) : net.layers[l].act = "Linear"

\* C29: for a net with a scalar output, evaluate_with_gradient fills the
\* buffer with the exact partial derivative of the output by every parameter
\* of every layer (weights row-major then bias, layer after layer), for every
\* activation function; for a two-layer net every entry agrees with the
\* finite difference of evaluate by that parameter (compared where the
\* difference is exact: the nets of linear layers).
C29_Gradient ==
    (nn.called /\ Differentiable(nn.net.layers, nn.input)) =>
        /\ nn.output = evaluate(nn.net, nn.input)
        /\ nn.gradient = Partials(nn.net.layers, nn.input).g
        /\ (Len(nn.net.layers) = 2 /\ AllLinear(nn.net)) =>
               \A k \in 1 .. Len(nn.gradient) :
                   nn.gradient[k] = FiniteDifference(nn.net, nn.input, k)

\* C30: evaluate_with_gradient overwrites the whole buffer: after the call it
\* holds what the call leaves in a buffer of zeros, whatever it held before,
\* the gradient of a call before included.
C30_Overwritten ==
    nn.called =>
        /\ Len(nn.gradient) = NeuralNet_num_parameters(nn.net)
        /\ nn.gradient =
               evaluate_with_gradient(nn.net, nn.input,
                                      zeros(NeuralNet_num_parameters(nn.net))).gradient

\* a call on a two-layer net whose buffer held nonzero entries and that
\* leaves zero entries
C30_Witness ==
    /\ nn.called
    /\ nn.dirty
    /\ Len(nn.net.layers) = 2
    /\ \E k \in 1 .. Len(nn.gradient) : nn.gradient[k] = Zero
    /\ \E k \in 1 .. Len(nn.gradient) : nn.gradient[k] # Zero

\* C23: at every action selection of train_on_episode the PlayerState of the
\* active player holds the hand the engine holds for that player, and every
\* action of possible_actions has its card in that hand, as the assertion of
\* action_vector requires.
C23_ObserverHand ==
    trainer.pc = "loop" =>
        LET q == phase.active
            actions == possible_actions(phase, state)
        IN  /\ players[q].hand = Elems(state.hands[q])
            /\ \A j \in 1 .. Len(actions) : actions[j].card \in players[q].hand

\* C24: at every training step, in the random branch and in the greedy one,
\* the vector passed to evaluate_q_grad holds the state vector of the active
\* player in its first state_size entries and the one-hot encoding of the
\* chosen action in its last action_size entries.
C24_StateActionVector ==
    trainer.step.branch # "none" =>
        /\ \A i \in 0 .. (state_size - 1) :
               trainer.player_action[i] = trainer.step.sv[i]
        /\ \A i \in 0 .. (action_size - 1) :
               trainer.player_action[state_size + i] = trainer.step.av[i]

\* C25: greedy selection returns an action of the list whose Q-value is
\* maximal, the first such action of the list when several share the value.
C25_GreedyFirstMax ==
    trainer.step.branch = "greedy" =>
        \E j \in 1 .. Len(trainer.step.offered) :
            /\ trainer.step.offered[j] = trainer.step.chosen
            /\ \A k \in 1 .. Len(trainer.step.offered) :
                   RLeq(trainer.step.qs[k], trainer.step.qs[j])
            /\ \A k \in 1 .. (j - 1) :
                   RLess(trainer.step.qs[k], trainer.step.qs[j])

\* C26: with dual_train off, a pass of the loop on player 1's turn applies no
\* weight update, decays player 1's eligibility trace by lambda * gamma and
\* adds the gradient of the pass to it, and sets player 1's last_q to the
\* Q-value of the pass.
C26_Player1Advances ==
    [][(/\ trainer.pc = "loop"
        /\ ~trainer.dual_train
        /\ phase.active = 1
        /\ phase' # phase
        /\ trainer'.pc # "panic")
       => (/\ trainer'.model = trainer.model
           /\ trainer'.step.updates = << >>
           /\ trainer'.e_trace[1] =
                  VAdd(VScale(RMul(lambda, gamma), trainer.e_trace[1]),
                       trainer'.grad)
           /\ trainer'.last_q[1] = trainer'.step.q_predict)]_vars

\* C32: when a build trick resolves, the hand of the trick winner gains
\* exactly the card revealed before the trick and the hand of the loser
\* exactly the card on top of the deck, so that both hands hold HandSize
\* cards again; then a new revealed card is popped from the deck if and only
\* if the deck is not empty.
C32_Step ==
    tricks'.build # tricks.build =>
        LET w == last_trick'.winner
            l == 1 - w
            follower == 1 - last_trick'.leader
            top == state.deck[Len(state.deck)]
            Before(q) == Elems(state.hands[q])
                             \ (IF q = follower THEN {last_trick'.follow} ELSE {})
        IN  /\ Elems(state'.hands[w]) = Before(w) \cup {phase.revealed}
            /\ Elems(state'.hands[l]) = Before(l) \cup {top}
            /\ phase.revealed \notin Before(w) /\ top \notin Before(l)
            /\ Len(state'.hands[0]) = HandSize /\ Len(state'.hands[1]) = HandSize
            /\ IF Len(state.deck) >= 2
               THEN /\ phase'.revealed = state.deck[Len(state.deck) - 1]
                    /\ state'.deck = SubSeq(state.deck, 1, Len(state.deck) - 2)
               ELSE /\ state'.deck = << >>
                    /\ phase'.kind = "FirstPhase" => phase'.revealed = None

C32_BuildTrick == [][C32_Step]_vars

\* C33: a card is revealed exactly while fewer than HandSize tricks are
\* resolved; after k < HandSize resolved tricks the deck holds
\* 2 * HandSize - 1 - 2k cards, so that the revealed card and the card of
\* the loser's draw exist at each of the first HandSize resolutions and no
\* expect fails; from the HandSize-th trick on the deck is empty and no card
\* is revealed.
C33_RevealedAndDeck ==
    LET k == tricks.build + tricks.score
    IN  /\ phase # Aborted /\ result # Panic
        /\ Revealed # None <=> k < HandSize
        /\ k < HandSize => Len(state.deck) = 2 * HandSize - 1 - 2 * k
        /\ k < HandSize => Len(state.deck) >= 1
        /\ k >= HandSize => state.deck = << >>

\* The last build trick is resolved and the round goes on
C33_Witness ==
    /\ tricks.build = HandSize
    /\ tricks.score > 0
    /\ state.deck = << >>
    /\ Revealed = None

\* C34: in a pass of the loop in which the active player is trained, the
\* weight update is made with the error gamma * Q(s, a) - last_q and along
\* the trace of the active player as they are before the pass; the trace
\* is then lambda * gamma * trace + g and last_q is Q(s, a), where Q(s, a)
\* and g are those of the vector chosen on the state before the action is
\* played; the trace and last_q of the other player are unchanged.
C34_Step ==
    (/\ trainer.pc = "loop"
     /\ trainer.dual_train \/ phase.active = 0
     /\ phase' # phase
     /\ trainer'.pc # "panic")
    => LET a == phase.active
           q == evaluate_q(trainer.model, trainer'.player_action)
       IN  /\ trainer'.step.q_predict = q
           /\ trainer'.step.sv = state_vector(players[a])
           /\ trainer'.step.updates =
                  <<[err |-> RSub(RMul(gamma, q), trainer.last_q[a]),
                     dir |-> trainer.e_trace[a],
                     player |-> a]>>
           /\ trainer'.model.ni = trainer.model.ni + 1
           /\ trainer'.e_trace[a] =
                  VAdd(VScale(RMul(lambda, gamma), trainer.e_trace[a]),
                       trainer'.grad)
           /\ trainer'.last_q[a] = q
           /\ trainer'.e_trace[1 - a] = trainer.e_trace[1 - a]
           /\ trainer'.last_q[1 - a] = trainer.last_q[1 - a]

C34_UpdateOrder == [][C34_Step]_vars

\* A trained pass of a player whose trace is not zero and whose last_q
\* differs from the Q-value of the pass
C34_Witness ==
    /\ trainer.pc = "loop"
    /\ Len(trainer.step.updates) = 1
    /\ trainer.step.updates[1].dir # zeros(Len(trainer.grad))
    /\ trainer.step.updates[1].err # Zero
    /\ trainer.model.ni >= 2

\* C35: in a round played with legal actions, after an observer has
\* processed the events delivered to it, every card its belief holds as
\* Owns is in the opponent's hand and no card of the opponent's hand is held
\* as Played or Void.
C35_BeliefConsistent ==
    \A q \in Players :
        (started > 0 /\ phase # Aborted /\ players[q] # Aborted) =>
            \A c \in Cards :
                LET held == contains(state.hands[1 - q], c)
                    tag == players[q].oppo[c].tag
                IN  /\ tag = "Owns" => held
                    /\ held => tag \notin {"Played", "Void"}

\* The opponent discarded on the observer's lead, which marked a suit void,
\* and holds a card the observer saw it take
C35_Witness ==
    \E q \in Players :
        /\ started > 0 /\ phase # Aborted /\ players[q] # Aborted
        /\ \E c \in Cards : players[q].oppo[c].tag = "Void"
        /\ \E c \in Cards : players[q].oppo[c].tag = "Owns"

\* C36: every Card event delivered to player q whose recipient is q carries
\* the card, so the expect of the observer on its own Card events does not
\* fail; a Card event without a card is delivered only to the player who is
\* not its recipient, and only for the draw of the trick loser from the deck.
C36_CardEvents ==
    \A q \in Players :
        /\ players[q] # Aborted
        /\ \A i \in 1 .. Len(events[q]) :
               LET e == events[q][i]
               IN  e.type = "Card" =>
                       /\ e.player = q => e.card # None
                       /\ e.card = None =>
                              /\ e.player # q
                              /\ e.player = 1 - last_trick.winner
                              /\ i = 3
                              /\ events[1 - q][i].card = state.hands[e.player][Len(state.hands[e.player])]

\* A build trick is resolved: the loser is given the card it drew, the
\* winner a Card event without the card
C36_Witness ==
    \E q \in Players :
        /\ Len(events[q]) = 4
        /\ events[q][3].card = None
        /\ events[1 - q][3].card # None
        /\ players[1 - q] # Aborted
        /\ events[1 - q][3].card \in players[1 - q].hand

\* The predicates that empty_suit, card_drawn, card_played and card_seen hand
\* to transfer_probability_to, as the sets of the cards that satisfy them
C37_Preds ==
    {{c \in Cards : suit(c) # s} : s \in Suits} \cup {Cards \ {c} : c \in Cards}

\* The two functions on a belief probs in their division-by-zero cases
C37_NoOp(probs) ==
    /\ num_candidates(probs) = 0 =>
           \A n \in {-1, 1, HandSize} :
               distribute_uniformly(probs, F32(n)) = probs
    /\ \A pred \in C37_Preds :
           {c \in pred : is_prob(probs[c])} = {} =>
               transfer_probability_to(probs, pred) = probs

\* C37: the division-by-zero cases of HandBelief are no-ops: on a belief
\* without a card in Prob state distribute_uniformly, and on a belief in which
\* no Prob card satisfies the predicate transfer_probability_to, leave the
\* state and the probability of every card as they were.  The beliefs are
\* those an observer holds of its opponent in a round of legal actions.
C37_DivisionByZeroNoOp ==
    \A q \in Players : players[q] # Aborted => C37_NoOp(players[q].oppo)

\* C38: when train_on_episode starts a round without a starting player, each
\* of player 0 and player 1 can be the first active player: before the
\* round is started, for each player some start_round(None) makes it active.
C38_EitherPlayerFirst ==
    trainer.pc = "new" =>
        \A p \in Players :
            \E a \in Strides, b \in 0 .. MaxOffset :
                start_round(shuffle(BasicCard_all, a, b), None).ph.active = p

\* C40: the trick rule of the player's view and of the engine agree: for
\* every trump suit and every two distinct cards wins_against(lead, follow) is
\* true exactly when score_hand(lead, follow) is Some(false), the leader not
\* winning; and in every trick the engine resolved, wins_against of the cards
\* played is true exactly when the follower was made the winner.
C40_RulesAgree ==
    /\ \A t \in Suits, lead \in Cards : \A follow \in Cards \ {lead} :
           wins_against(t, lead, follow) <=>
               (score_hand(t, lead, follow) = [is_some |-> TRUE, value |-> FALSE])
    /\ last_trick.kind # "None" =>
           (wins_against(state.trump, last_trick.lead, last_trick.follow) <=>
               last_trick.winner # last_trick.leader)

\* A trick is resolved in which the follower wins with a trump on a plain lead
C40_Witness ==
    /\ last_trick.kind # "None"
    /\ last_trick.winner # last_trick.leader
    /\ suit(last_trick.follow) = state.trump
    /\ suit(last_trick.lead) # state.trump
    /\ wins_against(state.trump, last_trick.lead, last_trick.follow)

\* Round::play_action around each copy of on_action: the phase is replaced
\* by its transition when no round is left
C39_Round(r) ==
    [r EXCEPT !.ph = IF r.res = Ok /\ r.rl = 0 THEN transition(r.ph) ELSE r.ph]

\* The two copies returned the same result and left the same hands, deck,
\* score, led card, revealed card, active player and rounds left
C39_Same(a, b) ==
    /\ a.res = b.res
    /\ a.gs.hands = b.gs.hands
    /\ a.gs.deck = b.gs.deck
    /\ a.gs.score = b.gs.score
    /\ a.ph = b.ph

\* C39: the two copies of the phase logic agree: from the same state and phase
\* of a round, the on_action of engine.rs and the on_action of phase.rs
\* return the same result and leave the same state and phase for every action,
\* and again for every action that comes after it.
C39_CopiesAgree ==
    phase # Aborted =>
        \A a1 \in Action :
            LET p1 == C39_Round(on_action(phase, state, a1))
                e1 == C39_Round(engine_on_action(phase, state, a1))
            IN  /\ C39_Same(p1, e1)
                /\ p1.res # Panic /\ e1.res # Panic =>
                       \A a2 \in Action :
                           C39_Same(C39_Round(on_action(p1.ph, p1.gs, a2)),
                                    C39_Round(engine_on_action(e1.ph, e1.gs, a2)))

=============================================================================
